---------------------------- MODULE Spec2Model ----------------------------
(***************************************************************************)
(* A model of the rewriting proxy of proxy-inspector (src/src/server.ts).  *)
(*                                                                         *)
(* Text (URLs, attribute values, bodies) is a sequence of one-character    *)
(* strings, so that startsWith, slice, includes and replace are computed   *)
(* character by character as the JavaScript does.                          *)
(*                                                                         *)
(* Seven specifications share the module:                                  *)
(*   Spec      the HTTP server: inbound requests, their handlers' steps    *)
(*             between awaits, the upstream's answers, currentTargetOrigin *)
(*   SpecHtml  rewriteHtml applied (repeatedly) to documents               *)
(*   SpecPatch strip / proxyOrStrip of the generated runtime patch         *)
(*   SpecPage  the script injected into the page (src/src/inject/inject.ts):*)
(*             its handlers of messages, pointer and key events, animation *)
(*             frames and timers                                           *)
(*   SpecWindow the runtime patch executing in a page (server.ts:171-347): *)
(*             the bootstrap and the calls of the primitives it overrides  *)
(*   SpecLive  Spec with the fairness of the event loop: a handler goes on *)
(*             once the promise it awaits has settled                      *)
(*   SpecLoaded the server from the state a page loaded through /proxy     *)
(*             leaves it in                                                *)
(***************************************************************************)
EXTENDS Naturals, Sequences, FiniteSets, TLC

VARIABLES
  currentTargetOrigin, \* server.ts:14, "" is <<>>
  reqs,                \* the inbound requests received so far, with each handler's position
  htmlLog,             \* history: resolved origins of the HTML documents fetched by /proxy
  doc,                 \* SpecHtml: the document text handed to rewriteHtml
  out,                 \* SpecHtml: the latest result of rewriteHtml
  passes,              \* SpecHtml: how many times rewriteHtml was applied
  purl,                \* SpecPatch: the argument u
  pres,                \* SpecPatch: what the patch's functions returned for it
  page,                \* SpecPage: the variables of inject.ts's closure, the overlay,
                       \* the scheduled callbacks and what the last handler did
  win                  \* SpecWindow: the window the runtime patch runs in, and what
                       \* the last call of a primitive did

serverVars == <<currentTargetOrigin, reqs, htmlLog>>
htmlVars == <<doc, out, passes>>
patchVars == <<purl, pres>>
pageVars == <<page>>
winVars == <<win>>
vars == <<currentTargetOrigin, reqs, htmlLog, doc, out, passes, purl, pres, page, win>>

----------------------------------------------------------------------------
(* Bounds *)

MaxReqs == 2      \* inbound requests per behaviour
MaxPasses == 2    \* applications of rewriteHtml to one document
MaxElems == 1     \* elements of the input document's head, and of its body
MaxTimers == 1    \* pending setTimeout callbacks of the page
MaxDepth == 1     \* largest maxDepth of a get-dom-tree query

----------------------------------------------------------------------------
(* Text *)

Empty == <<>>

StartsWith(s, p) ==
  /\ Len(p) <= Len(s)
  /\ SubSeq(s, 1, Len(p)) = p

\* s.slice(n): the text after the first n characters
Slice(s, n) == SubSeq(s, n + 1, Len(s))

\* the text p occurs in s at position i
OccursAt(s, p, i) ==
  /\ i + Len(p) - 1 <= Len(s)
  /\ SubSeq(s, i, i + Len(p) - 1) = p

\* s.includes(p)
Includes(s, p) == \E i \in 1..(Len(s) + 1) : OccursAt(s, p, i)

\* text.replace(new RegExp(escapeRegExp(p), "g"), "") for non-empty p: one
\* scan from the left, each match removed, the scan resuming after the match
RECURSIVE RemoveAllFrom(_, _, _)
RemoveAllFrom(s, p, i) ==
  IF i > Len(s) THEN Empty
  ELSE IF OccursAt(s, p, i) THEN RemoveAllFrom(s, p, i + Len(p))
  ELSE <<s[i]>> \o RemoveAllFrom(s, p, i + 1)

Http == <<"h", "t", "t", "p", ":", "/", "/">>
Https == <<"h", "t", "t", "p", "s", ":", "/", "/">>

\* characters that end the authority of a URL
AuthorityEnd == {"/", "?", "#"}

RECURSIVE HostLen(_, _)
HostLen(s, i) ==
  IF i > Len(s) \/ s[i] \in AuthorityEnd THEN 0 ELSE 1 + HostLen(s, i + 1)

SchemeOf(u) ==
  IF StartsWith(u, Https) THEN Https
  ELSE IF StartsWith(u, Http) THEN Http
  ELSE Empty

\* new URL(u) succeeds: an http(s) scheme and a host. (The texts of this model
\* are lower case, without port, userinfo or blanks: what the parser would
\* normalise does not occur in them.)
UrlParses(u) ==
  /\ SchemeOf(u) # Empty
  /\ HostLen(u, Len(SchemeOf(u)) + 1) > 0

\* new URL(u).origin
UrlOrigin(u) == SubSeq(u, 1, Len(SchemeOf(u)) + HostLen(u, Len(SchemeOf(u)) + 1))

----------------------------------------------------------------------------
(* Origin stripping, server.ts:27-44 *)

\* escapeRegExp makes the origin a literal pattern: the regular expression
\* built from it matches exactly the text of the origin
stripOriginInText(text, origin) ==
  IF origin = Empty THEN text ELSE RemoveAllFrom(text, origin, 1)

stripOriginInCss(css, origin) == stripOriginInText(css, origin)

----------------------------------------------------------------------------
(* Documents.  cheerio.load parses the text as a document, so html, head   *)
(* and body always exist; a document is the list of the elements of its    *)
(* head and of its body.  An element is its tag, its attributes (name to   *)
(* value) and, for script and style, its text.  The texts of the model     *)
(* hold no character that parsing or serialising would escape.             *)

Marker == "data-proxy-injected"
True == <<"t", "r", "u", "e">>

Element(tag, attrs, text) == [tag |-> tag, attrs |-> attrs, text |-> text]

NoAttrs == [n \in {} |-> Empty]

HasAttr(el, n) == n \in DOMAIN el.attrs

\* $(el).attr(n): undefined (here the empty text, equally falsy) when absent
Attr(el, n) == IF HasAttr(el, n) THEN el.attrs[n] ELSE Empty

SetAttr(el, n, v) ==
  [el EXCEPT !.attrs = [m \in DOMAIN el.attrs \cup {n} |-> IF m = n THEN v ELSE el.attrs[m]]]

RemoveAttr(el, n) ==
  [el EXCEPT !.attrs = [m \in DOMAIN el.attrs \ {n} |-> el.attrs[m]]]

RECURSIVE RemoveAttrs(_, _)
RemoveAttrs(el, ns) ==
  IF ns = {} THEN el
  ELSE LET n == CHOOSE m \in ns : TRUE IN RemoveAttrs(RemoveAttr(el, n), ns \ {n})

CspEquivs ==
  { <<"Content-Security-Policy">>, <<"Content-Security-Policy-Report-Only">>,
    <<"X-Frame-Options">> }

\* server.ts:83-88: the elements the rewriter removes
Removed(el) ==
  \/ el.tag = "base"
  \/ el.tag = "meta" /\ Attr(el, "http-equiv") \in CspEquivs

\* server.ts:91-95
StripIntegrity(el) ==
  RemoveAttrs(el, {"integrity", "nonce"}
                   \cup (IF el.tag \in {"script", "link"} THEN {"crossorigin"} ELSE {}))

urlAttrs == <<"src", "href", "action", "data", "poster">>

\* server.ts:109-112: one attribute of one element
StripUrlAttr(el, attr, origin) ==
  LET val == Attr(el, attr) IN
  IF val # Empty /\ StartsWith(val, origin)
  THEN SetAttr(el, attr, IF Slice(val, Len(origin)) = Empty THEN <<"/">>
                         ELSE Slice(val, Len(origin)))
  ELSE el

RECURSIVE StripUrlAttrsFrom(_, _, _)
StripUrlAttrsFrom(el, i, origin) ==
  IF i > Len(urlAttrs) THEN el
  ELSE StripUrlAttrsFrom(StripUrlAttr(el, urlAttrs[i], origin), i + 1, origin)

\* server.ts:106-114
StripUrlAttrs(el, origin) == StripUrlAttrsFrom(el, 1, origin)

\* server.ts:117-130: srcset and inline style
StripTextAttr(el, attr, origin) ==
  LET val == Attr(el, attr) IN
  IF val # Empty /\ Includes(val, origin)
  THEN SetAttr(el, attr, stripOriginInText(val, origin))
  ELSE el

\* server.ts:131-136
StripStyleBody(el, origin) ==
  IF el.tag = "style" /\ el.text # Empty /\ Includes(el.text, origin)
  THEN [el EXCEPT !.text = stripOriginInText(el.text, origin)]
  ELSE el

IsInjected(el) == Attr(el, Marker) # Empty

\* server.ts:139-144
StripInlineScript(el, origin) ==
  IF /\ el.tag = "script"
     /\ ~HasAttr(el, "src")
     /\ ~IsInjected(el)
     /\ el.text # Empty
     /\ Includes(el.text, origin)
  THEN [el EXCEPT !.text = stripOriginInText(el.text, origin)]
  ELSE el

\* server.ts:91-144 on one element, in the order of the code (each pass of the
\* code visits every element and changes only the element it visits)
RewriteElement(el, origin) ==
  StripInlineScript(
    StripStyleBody(
      StripTextAttr(
        StripTextAttr(
          StripUrlAttrs(StripIntegrity(el), origin),
          "srcset", origin),
        "style", origin),
      origin),
    origin)

RECURSIVE RewriteElements(_, _)
RewriteElements(els, origin) ==
  IF els = <<>> THEN <<>>
  ELSE (IF Removed(Head(els)) THEN <<>> ELSE <<RewriteElement(Head(els), origin)>>)
       \o RewriteElements(Tail(els), origin)

\* server.ts:171-347: the generated script, which holds the origin as a literal
PatchText(origin) == <<"var ORIGIN=">> \o origin \o <<";(patches)">>

buildRuntimePatch(origin) ==
  Element("script", [n \in {Marker} |-> True], PatchText(origin))

\* server.ts:155-159: the bundle file's text, whatever it is
InjectJs == <<"inject.js">>

InjectTag == Element("script", [n \in {Marker} |-> True], InjectJs)

\* server.ts:78-167
rewriteHtml(html, baseUrl) ==
  LET origin == UrlOrigin(baseUrl) IN
  [ head |-> <<buildRuntimePatch(origin)>> \o RewriteElements(html.head, origin),
    body |-> RewriteElements(html.body, origin) \o <<InjectTag>> ]

----------------------------------------------------------------------------
(* The runtime patch's pure functions, server.ts:181-197.  ORIGIN is the   *)
(* origin the patch was generated for, LocationOrigin is location.origin   *)
(* of the page, that is, the proxy's own origin.                           *)

\* encodeURIComponent of one character: letters, digits and - _ . ! ~ * ' ( )
\* stay, every other character becomes its percent escape
EncodeChar(c) ==
  CASE c = ":" -> <<"%", "3", "A">>
    [] c = "/" -> <<"%", "2", "F">>
    [] c = "?" -> <<"%", "3", "F">>
    [] c = "#" -> <<"%", "2", "3">>
    [] c = "=" -> <<"%", "3", "D">>
    [] c = " " -> <<"%", "2", "0">>
    [] OTHER -> <<c>>

RECURSIVE encodeURIComponent(_)
encodeURIComponent(u) ==
  IF u = Empty THEN Empty ELSE EncodeChar(Head(u)) \o encodeURIComponent(Tail(u))

ProxyPrefix == <<"/", "p", "r", "o", "x", "y", "?", "u", "r", "l", "=">>
DataScheme == <<"d", "a", "t", "a", ":">>
BlobScheme == <<"b", "l", "o", "b", ":">>
JavascriptScheme == <<"j", "a", "v", "a", "s", "c", "r", "i", "p", "t", ":">>
Hash == <<"#">>

\* server.ts:181-185
strip(u, ORIGIN) ==
  IF u = Empty THEN u
  ELSE IF StartsWith(u, ORIGIN)
       THEN (IF Slice(u, Len(ORIGIN)) = Empty THEN <<"/">> ELSE Slice(u, Len(ORIGIN)))
       ELSE u

\* /^https?:\/\//.test(u)
IsHttpUrlText(u) == StartsWith(u, Http) \/ StartsWith(u, Https)

\* server.ts:188-197
proxyOrStrip(u, ORIGIN, LocationOrigin) ==
  IF u = Empty THEN u
  ELSE IF \/ StartsWith(u, DataScheme)
          \/ StartsWith(u, BlobScheme)
          \/ StartsWith(u, JavascriptScheme)
          \/ StartsWith(u, Hash)
       THEN u
  ELSE IF StartsWith(u, ORIGIN)
       THEN (IF Slice(u, Len(ORIGIN)) = Empty THEN <<"/">> ELSE Slice(u, Len(ORIGIN)))
  ELSE IF IsHttpUrlText(u) /\ ~StartsWith(u, LocationOrigin)
       THEN ProxyPrefix \o encodeURIComponent(u)
  ELSE u

----------------------------------------------------------------------------
(* The server: headers and content dispatch *)

HtmlTypes == {"text/html", "text/html; charset=utf-8"}
CssTypes == {"text/css"}
JsTypes == {"application/javascript", "text/javascript", "application/ecmascript"}
JsonTypes == {"application/json"}
\* a text type that none of the tests of processAndSend matches
PlainTypes == {"text/plain"}

\* server.ts:18-26: ct is "" when the upstream sent no content type; the sets
\* list the content types of the model that include the searched text
isHtml(ct) == ct \in HtmlTypes
isCss(ct) == ct \in CssTypes
isJs(ct) == ct \in JsTypes

NoHeaders == [n \in {} |-> ""]

SetHeader(h, n, v) == [m \in DOMAIN h \cup {n} |-> IF m = n THEN v ELSE h[m]]

RemoveHeader(h, n) == [m \in DOMAIN h \ {n} |-> h[m]]

\* server.ts:63-74
setPermissiveHeaders(h) ==
  RemoveHeader(
    RemoveHeader(
      RemoveHeader(
        RemoveHeader(
          SetHeader(
            SetHeader(
              SetHeader(h, "Access-Control-Allow-Origin", "*"),
              "Access-Control-Allow-Methods", "GET, POST, PUT, DELETE, OPTIONS"),
            "Access-Control-Allow-Headers", "*"),
          "X-Frame-Options"),
        "Content-Security-Policy"),
      "Content-Security-Policy-Report-Only"),
    "X-Content-Type-Options")

\* server.ts:48-59: the two headers that carry the target origin
buildFetchHeaders(targetOrigin) ==
  [Referer |-> targetOrigin \o <<"/">>, Origin |-> targetOrigin]

\* a response object before anything was written to it: Express answers 200
\* unless res.status is called
NewRes == [sent |-> FALSE, status |-> 200, headers |-> NoHeaders, body |-> [kind |-> "none"]]

\* res.status(code).json({...}), server.ts:411, 436-440, 462-464, 503-507
JsonRes(res, code, error, details, url) ==
  [res EXCEPT !.sent = TRUE,
              !.status = code,
              !.headers = SetHeader(@, "Content-Type", "application/json; charset=utf-8"),
              !.body = [kind |-> "json", error |-> error, details |-> details, url |-> url]]

\* server.ts:357-372: processAndSend up to its first await
processHeaders(res, response) ==
  LET h0 == setPermissiveHeaders(res.headers)
      h1 == IF "cache-control" \in DOMAIN response.headers
            THEN SetHeader(h0, "Cache-Control", response.headers["cache-control"]) ELSE h0
      h2 == IF "etag" \in DOMAIN response.headers
            THEN SetHeader(h1, "ETag", response.headers["etag"]) ELSE h1
  IN [res EXCEPT !.headers = h2]

\* server.ts:367-372
SendOrigin(finalUrl, cto) == IF UrlParses(finalUrl) THEN UrlOrigin(finalUrl) ELSE cto

\* server.ts:374-403: processAndSend once the upstream body was read
processBody(res, response, finalUrl, origin) ==
  LET ct == response.ct
      typed == IF ct # "" THEN SetHeader(res.headers, "Content-Type", ct) ELSE res.headers
  IN
  IF isHtml(ct)
  THEN [res EXCEPT !.sent = TRUE,
                   !.headers = SetHeader(@, "Content-Type", "text/html; charset=utf-8"),
                   !.body = [kind |-> "html", doc |-> rewriteHtml(response.body.doc, finalUrl)]]
  ELSE IF isCss(ct)
  THEN [res EXCEPT !.sent = TRUE, !.headers = typed,
                   !.body = [kind |-> "text", text |-> stripOriginInCss(response.body.text, origin)]]
  ELSE IF isJs(ct) \/ ct \in JsonTypes
  THEN [res EXCEPT !.sent = TRUE, !.headers = typed,
                   !.body = [kind |-> "text", text |-> stripOriginInText(response.body.text, origin)]]
  ELSE [res EXCEPT !.sent = TRUE, !.headers = typed,
                   !.body = [kind |-> "bytes", text |-> response.body.text]]

----------------------------------------------------------------------------
(* The server: what arrives, and what the upstream answers *)

OriginT == Http \o <<"t">>
OriginO == Http \o <<"o">>

ProxyPath == <<"/", "p", "r", "o", "x", "y">>
SomePath == <<"/", "a", "/", "b">>
SomeQuery == <<"?", "c", "=", "1">>

\* req.query.url: absent, not a URL, a URL of each origin
UrlParams ==
  { [given |-> FALSE, text |-> Empty],
    [given |-> TRUE, text |-> <<"x">>],
    [given |-> TRUE, text |-> OriginT \o <<"/">>],
    [given |-> TRUE, text |-> OriginO \o <<"/", "p">>] }

NoParam == [given |-> FALSE, text |-> Empty]

Inbound ==
  { [method |-> "GET", path |-> ProxyPath, query |-> Empty, url |-> u] : u \in UrlParams }
  \cup { [method |-> m, path |-> SomePath, query |-> SomeQuery, url |-> NoParam] :
           m \in {"GET", "POST", "OPTIONS"} }

\* server.ts:408, 446, 460: the route Express picks (no file of the static
\* directory, which is outside this model, is ever named)
Route(r) ==
  IF r.method = "OPTIONS" THEN "options"
  ELSE IF r.method = "GET" /\ r.path = ProxyPath THEN "proxy"
  ELSE "catchall"

\* req.originalUrl
OriginalUrl(r) == r.path \o r.query

\* where the upstream redirects to, when it does: a page of the other origin
RedirectOf(u) ==
  (IF UrlOrigin(u) = OriginT THEN OriginO ELSE OriginT) \o <<"/", "r">>

UpHeaders(ct) ==
  IF isHtml(ct)
  THEN [n \in {"x-frame-options", "content-security-policy"} |-> "deny"]
  ELSE IF isCss(ct) THEN [n \in {"cache-control", "etag"} |-> "v1"]
  ELSE NoHeaders

\* the upstream body: a page linking to its own origin, a style sheet or a
\* plain text naming it, or bytes
UpBody(ct, finalUrl) ==
  IF isHtml(ct)
  THEN [kind |-> "html",
        doc |-> [head |-> <<>>,
                 body |-> <<Element("a", [n \in {"href"} |-> UrlOrigin(finalUrl) \o <<"/", "x">>],
                                    Empty)>>]]
  ELSE IF isCss(ct)
  THEN [kind |-> "text", text |-> <<"u", "(">> \o UrlOrigin(finalUrl) \o <<"/", "i", ")">>]
  ELSE IF ct \in PlainTypes
  THEN [kind |-> "text", text |-> <<"a", "t", " ">> \o UrlOrigin(finalUrl) \o <<"/", "i">>]
  ELSE [kind |-> "bytes", text |-> <<"bytes">>]

UpResponse(status, ct, finalUrl) ==
  [status |-> status, ct |-> ct, url |-> finalUrl,
   headers |-> UpHeaders(ct), body |-> UpBody(ct, finalUrl)]

\* what fetch(targetUrl, {redirect: "follow"}) may resolve with
UpResponses(targetUrl) ==
  { UpResponse(200, "text/html; charset=utf-8", targetUrl),
    UpResponse(200, "text/html; charset=utf-8", RedirectOf(targetUrl)),
    UpResponse(404, "text/html; charset=utf-8", targetUrl),
    UpResponse(200, "text/css", targetUrl),
    UpResponse(404, "text/css", RedirectOf(targetUrl)),
    UpResponse(200, "text/plain", targetUrl),
    UpResponse(200, "image/png", targetUrl),
    UpResponse(200, "", targetUrl) }

\* err.message of a failed fetch
FetchErrors == {"ECONNREFUSED"}

\* a request whose handler has run up to its first await, or to its end;
\* fetches lists the URLs it has called fetch with
Request(r, pc, targetUrl, opts, fetches, res) ==
  [method |-> r.method, route |-> Route(r), originalUrl |-> OriginalUrl(r), url |-> r.url,
   pc |-> pc, targetUrl |-> targetUrl, opts |-> opts, fetches |-> fetches,
   up |-> <<>>, err |-> "", origin |-> Empty, res |-> res]

Ids == 1..Len(reqs)

----------------------------------------------------------------------------
(* The server: handlers.  Each action is what a handler does between two   *)
(* awaits; the requests' handlers interleave at the awaits.                *)

\* server.ts:408-421: GET /proxy up to the await of fetch
ProxyStart(r) ==
  IF r.url.text = Empty
  THEN Request(r, "done", Empty, <<>>, <<>>,
               JsonRes(NewRes, 400, "Missing ?url= parameter", "", Empty))
  ELSE IF ~UrlParses(r.url.text)
  THEN Request(r, "done", r.url.text, <<>>, <<>>,
               JsonRes(NewRes, 502, "Failed to fetch target URL", "Invalid URL", r.url.text))
  ELSE Request(r, "fetching", r.url.text,
               <<buildFetchHeaders(UrlOrigin(r.url.text))>>, <<r.url.text>>, NewRes)

ProxyHandler ==
  /\ Len(reqs) < MaxReqs
  /\ \E r \in Inbound :
       /\ Route(r) = "proxy"
       /\ reqs' = Append(reqs, ProxyStart(r))
  /\ UNCHANGED <<currentTargetOrigin, htmlLog, htmlVars, patchVars, pageVars, winVars>>

\* a /proxy handler that records the origin of the URL it was asked for
ProxyRequestedOrigin(q, response) == UrlOrigin(q.targetUrl)

\* server.ts:423-431: the origin the /proxy handler records
ProxyFinalOrigin(q, response) == UrlOrigin(response.url)

\* server.ts:423-433 and 357-375: fetch resolved; the handler runs on to the
\* await of the upstream body inside processAndSend
ProxyFetchResponse(i) ==
  /\ reqs[i].route = "proxy"
  /\ reqs[i].pc = "fetching"
  /\ \E response \in UpResponses(reqs[i].targetUrl) :
       LET finalOrigin == ProxyFinalOrigin(reqs[i], response) IN
       /\ IF isHtml(response.ct)
          THEN /\ currentTargetOrigin' = finalOrigin
               /\ htmlLog' = Append(htmlLog, finalOrigin)
          ELSE UNCHANGED <<currentTargetOrigin, htmlLog>>
       /\ reqs' = [reqs EXCEPT ![i].pc = "reading",
                               ![i].up = <<response>>,
                               ![i].origin = SendOrigin(response.url, currentTargetOrigin'),
                               ![i].res = processHeaders(@, response)]
  /\ UNCHANGED <<htmlVars, patchVars, pageVars, winVars>>

\* a 502 that drops the underlying error text
FetchFailureNoDetail(q, message) ==
  JsonRes(q.res, 502, "Failed to fetch", "", q.targetUrl)

\* server.ts:434-441 and 501-508: the 502 of either path
FetchFailure(q, message) ==
  JsonRes(q.res, 502,
          IF q.route = "proxy" THEN "Failed to fetch target URL" ELSE "Failed to fetch from target",
          message, q.targetUrl)

\* server.ts:434-441: fetch rejected
ProxyFetchError(i) ==
  /\ reqs[i].route = "proxy"
  /\ reqs[i].pc = "fetching"
  /\ \E e \in FetchErrors :
       reqs' = [reqs EXCEPT ![i].pc = "done", ![i].err = e, ![i].res = FetchFailure(reqs[i], e)]
  /\ UNCHANGED <<currentTargetOrigin, htmlLog, htmlVars, patchVars, pageVars, winVars>>

\* server.ts:446-449
OptionsHandler ==
  /\ Len(reqs) < MaxReqs
  /\ \E r \in Inbound :
       /\ Route(r) = "options"
       /\ reqs' = Append(reqs,
            Request(r, "done", Empty, <<>>, <<>>,
                    [NewRes EXCEPT !.sent = TRUE, !.status = 204,
                                   !.headers = setPermissiveHeaders(NewRes.headers),
                                   !.body = [kind |-> "status"]]))
  /\ UNCHANGED <<currentTargetOrigin, htmlLog, htmlVars, patchVars, pageVars, winVars>>

\* a catch-all that forwards the path without its query string
CatchAllTargetUrlNoQuery(cto, r) == cto \o r.path

\* server.ts:468
CatchAllTargetUrl(cto, r) == cto \o OriginalUrl(r)

\* server.ts:460-497: the catch-all up to its first await: of the request
\* body for a method with one, of fetch otherwise
CatchAllStart(r, cto) ==
  IF cto = Empty
  THEN Request(r, "done", Empty, <<>>, <<>>,
               JsonRes(NewRes, 404, "No target origin set. Load a page via /proxy?url= first.",
                       "", Empty))
  ELSE IF r.method \notin {"GET", "HEAD"}
  THEN Request(r, "collecting", CatchAllTargetUrl(cto, r), <<buildFetchHeaders(cto)>>,
               <<>>, NewRes)
  ELSE Request(r, "fetching", CatchAllTargetUrl(cto, r), <<buildFetchHeaders(cto)>>,
               <<CatchAllTargetUrl(cto, r)>>, NewRes)

CatchAllHandler ==
  /\ Len(reqs) < MaxReqs
  /\ \E r \in Inbound :
       /\ Route(r) = "catchall"
       /\ reqs' = Append(reqs, CatchAllStart(r, currentTargetOrigin))
  /\ UNCHANGED <<currentTargetOrigin, htmlLog, htmlVars, patchVars, pageVars, winVars>>

\* a catch-all that builds its headers once the body was collected
CatchAllBodyEndLate(i) ==
  /\ reqs[i].pc = "collecting"
  /\ reqs' = [reqs EXCEPT ![i].pc = "fetching",
                          ![i].opts = <<buildFetchHeaders(currentTargetOrigin)>>,
                          ![i].fetches = Append(@, reqs[i].targetUrl)]
  /\ UNCHANGED <<currentTargetOrigin, htmlLog, htmlVars, patchVars, pageVars, winVars>>

\* server.ts:484-497: the request body ended; fetch is called with the
\* targetUrl and the fetchOpts built before the await (468, 471-478)
CatchAllBodyEnd(i) ==
  /\ reqs[i].pc = "collecting"
  /\ reqs' = [reqs EXCEPT ![i].pc = "fetching", ![i].fetches = Append(@, reqs[i].targetUrl)]
  /\ UNCHANGED <<currentTargetOrigin, htmlLog, htmlVars, patchVars, pageVars, winVars>>

\* server.ts:487, 501-508: the request stream failed
CatchAllBodyError(i) ==
  /\ reqs[i].pc = "collecting"
  /\ reqs' = [reqs EXCEPT ![i].pc = "done", ![i].err = "aborted",
                          ![i].res = FetchFailure(reqs[i], "aborted")]
  /\ UNCHANGED <<currentTargetOrigin, htmlLog, htmlVars, patchVars, pageVars, winVars>>

\* server.ts:497-500 and 357-375
CatchAllFetchResponse(i) ==
  /\ reqs[i].route = "catchall"
  /\ reqs[i].pc = "fetching"
  /\ \E response \in UpResponses(reqs[i].targetUrl) :
       reqs' = [reqs EXCEPT ![i].pc = "reading",
                            ![i].up = <<response>>,
                            ![i].origin = SendOrigin(response.url, currentTargetOrigin),
                            ![i].res = processHeaders(@, response)]
  /\ UNCHANGED <<currentTargetOrigin, htmlLog, htmlVars, patchVars, pageVars, winVars>>

\* server.ts:501-508
CatchAllFetchError(i) ==
  /\ reqs[i].route = "catchall"
  /\ reqs[i].pc = "fetching"
  /\ \E e \in FetchErrors :
       reqs' = [reqs EXCEPT ![i].pc = "done", ![i].err = e, ![i].res = FetchFailure(reqs[i], e)]
  /\ UNCHANGED <<currentTargetOrigin, htmlLog, htmlVars, patchVars, pageVars, winVars>>

\* server.ts:374-403: the upstream body was read; the response is sent
SendBody(i) ==
  /\ reqs[i].pc = "reading"
  /\ reqs' = [reqs EXCEPT ![i].pc = "done",
                          ![i].res = processBody(@, reqs[i].up[1], reqs[i].up[1].url,
                                                 reqs[i].origin)]
  /\ UNCHANGED <<currentTargetOrigin, htmlLog, htmlVars, patchVars, pageVars, winVars>>

\* server.ts:433 and 500 return processAndSend(...) without awaiting it, so
\* the try blocks of the handlers (414-441, 470-508) are left before its
\* promise settles. When the upstream body cannot be read (375, 381, 387,
\* 395, 402) or rewriteHtml throws because the bundle file cannot be read
\* (155-158), that promise rejects and so does the handler's, which no code
\* of the repository observes. What becomes of the request is the
\* framework's: it stays unanswered, or the framework's own error handler
\* answers 500.
ProcessFailure(i) ==
  /\ reqs[i].pc = "reading"
  /\ \E cause \in {"ERR_STREAM_PREMATURE_CLOSE"}
                   \cup (IF isHtml(reqs[i].up[1].ct) THEN {"ENOENT"} ELSE {}) :
       \/ reqs' = [reqs EXCEPT ![i].pc = "rejected", ![i].err = cause]
       \/ reqs' = [reqs EXCEPT ![i].pc = "done", ![i].err = cause,
                               ![i].res = [@ EXCEPT !.sent = TRUE, !.status = 500,
                                                    !.body = [kind |-> "framework",
                                                             text |-> <<"5", "0", "0">>]]]
  /\ UNCHANGED <<currentTargetOrigin, htmlLog, htmlVars, patchVars, pageVars, winVars>>

InitServer ==
  /\ currentTargetOrigin = Empty
  /\ reqs = <<>>
  /\ htmlLog = <<>>

IdleHtml ==
  /\ doc = [base |-> Empty, head |-> <<>>, body |-> <<>>]
  /\ out = [head |-> <<>>, body |-> <<>>]
  /\ passes = 0

IdlePatch ==
  /\ purl = [u |-> Empty, origin |-> Empty]
  /\ pres = [fn |-> "none", val |-> Empty]

\* no page has loaded the injected script
IdlePage == page = [loaded |-> FALSE]

\* no page has run the runtime patch
IdleWindow == win = [open |-> FALSE]

Init == InitServer /\ IdleHtml /\ IdlePatch /\ IdlePage /\ IdleWindow

Next ==
  \/ ProxyHandler
  \/ OptionsHandler
  \/ CatchAllHandler
  \/ \E i \in Ids : ProxyFetchResponse(i)
  \/ \E i \in Ids : ProxyFetchError(i)
  \/ \E i \in Ids : CatchAllBodyEnd(i)
  \/ \E i \in Ids : CatchAllBodyError(i)
  \/ \E i \in Ids : CatchAllFetchResponse(i)
  \/ \E i \in Ids : CatchAllFetchError(i)
  \/ \E i \in Ids : SendBody(i)
  \/ \E i \in Ids : ProcessFailure(i)

Spec == Init /\ [][Next]_vars

\* The server once a page of http://t was loaded through /proxy and that
\* request was answered: server.ts:429 assigned the origin, and the process
\* keeps nothing else of an answered request.
LoadedServer ==
  /\ currentTargetOrigin = OriginT
  /\ reqs = <<>>
  /\ htmlLog = <<OriginT>>

InitLoaded == LoadedServer /\ IdleHtml /\ IdlePatch /\ IdlePage /\ IdleWindow

SpecLoaded == InitLoaded /\ [][Next]_vars

\* what the handler of the i-th request does once the promise it awaits has
\* settled
Continue(i) ==
  \/ ProxyFetchError(i)
  \/ CatchAllBodyError(i)
  \/ CatchAllFetchError(i)
  \/ ProcessFailure(i)
  \/ ProxyFetchResponse(i)
  \/ CatchAllBodyEnd(i)
  \/ CatchAllFetchResponse(i)
  \/ SendBody(i)

\* Every promise a handler awaits settles (the request's body ends or fails,
\* the fetch resolves or rejects, the upstream body is read or fails), and
\* the event loop then runs the handler's continuation.
SpecLive ==
  Init /\ [][Next]_vars /\ \A i \in 1..MaxReqs : WF_vars(i \in Ids /\ Continue(i))

----------------------------------------------------------------------------
(* rewriteHtml on its own: the documents it is applied to *)

BaseUrls == { OriginT \o <<"/", "p">>, Https \o <<"t", "/">> }

\* attribute values and texts that name the origin o: alone, as a prefix,
\* twice, after other text, and split around a whole occurrence
TextsFor(o) ==
  { o,
    o \o <<"/", "x">>,
    <<"/", "x">>,
    <<"/", "r", "?", "u", "=">> \o o \o <<"/", "x">>,
    o \o o \o <<"/", "x">>,
    SubSeq(o, 1, 4) \o o \o SubSeq(o, 5, Len(o)) \o <<"/", "x">> }

One(n, v) == [m \in {n} |-> v]

HeadElements(o) ==
  { Element("base", One("href", o \o <<"/">>), Empty),
    Element("meta", One("http-equiv", <<"Content-Security-Policy">>), Empty) }
  \cup { Element("link", [n \in {"href", "integrity", "crossorigin"} |->
                            IF n = "href" THEN v ELSE <<"k">>], Empty) : v \in TextsFor(o) }
  \cup { Element("script", [n \in {"src", "integrity", "nonce"} |->
                              IF n = "src" THEN v ELSE <<"k">>], Empty) : v \in TextsFor(o) }
  \cup { Element("script", NoAttrs, v) : v \in TextsFor(o) }
  \cup { Element("script", One(Marker, True), v) : v \in TextsFor(o) }
  \cup { Element("style", NoAttrs, v) : v \in TextsFor(o) }

BodyElements(o) ==
  UNION { { Element("a", One("href", v), Empty),
            Element("img", [n \in {"src", "srcset"} |-> v], Empty),
            Element("div", One("style", v), Empty),
            Element("form", One("action", v), Empty),
            Element("object", One("data", v), Empty),
            Element("video", One("poster", v), Empty) } : v \in TextsFor(o) }

SeqsUpTo(S, n) == UNION { [1..k -> S] : k \in 0..n }

\* the documents of at most MaxElems elements, each in the section the parser
\* puts it in
Documents ==
  UNION { { [base |-> b, head |-> h, body |-> <<>>] : h \in SeqsUpTo(HeadElements(UrlOrigin(b)), MaxElems) }
          \cup { [base |-> b, head |-> <<>>, body |-> c] :
                   c \in SeqsUpTo(BodyElements(UrlOrigin(b)), MaxElems) }
          : b \in BaseUrls }

InitHtml ==
  /\ doc \in Documents
  /\ out = [head |-> <<>>, body |-> <<>>]
  /\ passes = 0

\* rewriteHtml applied to the document, then to its own result
Rewrite ==
  /\ passes < MaxPasses
  /\ out' = rewriteHtml(IF passes = 0 THEN [head |-> doc.head, body |-> doc.body] ELSE out,
                        doc.base)
  /\ passes' = passes + 1
  /\ UNCHANGED <<doc, serverVars, patchVars, pageVars, winVars>>

NextHtml == Rewrite

InitHtmlSpec == InitServer /\ InitHtml /\ IdlePatch /\ IdlePage /\ IdleWindow

SpecHtml == InitHtmlSpec /\ [][NextHtml]_vars

----------------------------------------------------------------------------
(* The runtime patch's functions on their own *)

LocationOrigin == Http \o <<"l">>

PatchOrigins == { OriginT, Https \o <<"t">> }

PatchSchemes == { Http, Https, <<"/", "/">>, Empty }
PatchHosts == { <<"t">>, <<"t", ".", "e">>, <<"o">>, <<"l">>, <<"l", ".", "e">> }
PatchPaths == { Empty, <<"/">>, <<"/", "x">>, <<"/", "x", "?", "q", "=", "1">>, <<"#", "f">> }

PatchInputs ==
  { s \o h \o q : s \in PatchSchemes, h \in PatchHosts, q \in PatchPaths }
  \cup { Empty, <<"/", "x">>, Hash \o <<"f">>, <<" ">> \o OriginO \o <<"/">>,
         DataScheme \o <<"x">>, BlobScheme \o OriginT \o <<"/", "x">>,
         JavascriptScheme \o <<"x">> }

InitPatch ==
  /\ purl \in { [u |-> u, origin |-> o] : u \in PatchInputs, o \in PatchOrigins }
  /\ pres = [fn |-> "none", val |-> Empty]

CallStrip ==
  /\ pres.fn = "none"
  /\ pres' = [fn |-> "strip", val |-> strip(purl.u, purl.origin)]
  /\ UNCHANGED <<purl, serverVars, htmlVars, pageVars, winVars>>

CallProxyOrStrip ==
  /\ pres.fn = "none"
  /\ pres' = [fn |-> "proxyOrStrip", val |-> proxyOrStrip(purl.u, purl.origin, LocationOrigin)]
  /\ UNCHANGED <<purl, serverVars, htmlVars, pageVars, winVars>>

NextPatch == CallStrip \/ CallProxyOrStrip

InitPatchSpec == InitServer /\ IdleHtml /\ InitPatch /\ IdlePage /\ IdleWindow

SpecPatch == InitPatchSpec /\ [][NextPatch]_vars

----------------------------------------------------------------------------
(* The injected script, src/src/inject/inject.ts: the page it runs in *)

\* null, for a reference to an element
Null == "null"

\* animationFrameId = null; the handles of requestAnimationFrame are positive
NoFrame == 0

\* document.documentElement and document.body
Html == "html"
Body == "body"

\* The element children of each element of the page, in document order. The
\* overlay's divs are appended to document.documentElement when they are
\* created (inject.ts:69); the bundle's script tag is the last child of the
\* body (server.ts:164).
Children(n) ==
  CASE n = "html" -> <<"head", "body">>
    [] n = "body" -> <<"main", "para", "bundle">>
    [] n = "main" -> <<"link">>
    [] n = "link" -> <<"em">>
    [] n = "em" -> <<"b">>
    [] n = "b" -> <<"i">>
    [] OTHER -> <<>>

Elements == {"html", "head", "body", "main", "link", "em", "b", "i", "para", "bundle"}

DocumentOrder == <<"html", "head", "body", "main", "link", "em", "b", "i", "para", "bundle">>

\* the parent of each element: the element it is a child of
Parents ==
  [n \in Elements |->
     IF \E m \in Elements : \E k \in 1..Len(Children(m)) : Children(m)[k] = n
     THEN CHOOSE m \in Elements : \E k \in 1..Len(Children(m)) : Children(m)[k] = n
     ELSE Null]

\* el.parentElement
parentElement(n) == Parents[n]

\* el.tagName
tagName(n) ==
  CASE n = "html" -> "HTML"
    [] n = "head" -> "HEAD"
    [] n = "body" -> "BODY"
    [] n = "main" -> "DIV"
    [] n = "link" -> "A"
    [] n = "em" -> "SPAN"
    [] n = "b" -> "B"
    [] n = "i" -> "I"
    [] n = "para" -> "P"
    [] n = "bundle" -> "SCRIPT"

\* el.tagName.toLowerCase()
toLowerCase(t) ==
  CASE t = "HTML" -> "html"
    [] t = "HEAD" -> "head"
    [] t = "BODY" -> "body"
    [] t = "DIV" -> "div"
    [] t = "A" -> "a"
    [] t = "SPAN" -> "span"
    [] t = "B" -> "b"
    [] t = "I" -> "i"
    [] t = "P" -> "p"
    [] t = "SCRIPT" -> "script"
    [] OTHER -> t

\* el.id
IdOf(n) == IF n = "main" THEN "main" ELSE ""

OverlayMarker == "data-proxy-highlight"

\* el.hasAttribute(a): of the page's elements only the bundle's script tag
\* carries a marker
hasAttribute(n, a) == n = "bundle" /\ a = Marker

\* the text of the element's own text node
textContent(n) ==
  CASE n = "para" -> <<"y", "e", "s">>
    [] n = "i" -> <<"g", "o">>
    [] OTHER -> Empty

\* window.location: the page is served by the proxy
Location ==
  [origin |-> LocationOrigin, pathname |-> <<"/", "a">>, search |-> Empty, hash |-> Empty]

\* the href of a parsed URL
HrefOf(resolved) ==
  resolved.origin \o resolved.pathname \o resolved.search \o resolved.hash

(* new URL(href, base) for the references of this model *)

\* the position of the first character of s, from i on, that is in cs
\* (Len(s) + 1 when there is none)
RECURSIVE IndexOfAny(_, _, _)
IndexOfAny(s, cs, i) ==
  IF i > Len(s) \/ s[i] \in cs THEN i ELSE IndexOfAny(s, cs, i + 1)

\* new URL(href, base) throws: an http(s) scheme without a host
UrlThrows(href) == SchemeOf(href) # Empty /\ ~UrlParses(href)

\* new URL(href, window.location.href), as its origin, pathname, search and
\* hash, for absolute http(s) URLs, scheme-relative, root-relative,
\* query-only and fragment-only references
ResolveUrl(href) ==
  LET abs == IF UrlParses(href) THEN href
             ELSE IF StartsWith(href, <<"/", "/">>)
                  THEN Http \o Slice(href, 2)
             ELSE IF StartsWith(href, <<"/">>) THEN Location.origin \o href
             ELSE IF StartsWith(href, <<"?">>)
                  THEN Location.origin \o Location.pathname \o href
             ELSE Location.origin \o Location.pathname \o Location.search \o href
      rest == Slice(abs, Len(UrlOrigin(abs)))
      q == IndexOfAny(rest, {"?", "#"}, 1)
      h == IndexOfAny(rest, {"#"}, 1)
      pathname == SubSeq(rest, 1, q - 1)
      search == SubSeq(rest, q, h - 1)
      hash == SubSeq(rest, h, Len(rest))
  IN [origin |-> UrlOrigin(abs),
      pathname |-> IF pathname = Empty THEN <<"/">> ELSE pathname,
      search |-> IF search = <<"?">> THEN Empty ELSE search,
      hash |-> IF hash = <<"#">> THEN Empty ELSE hash]

(* Selectors *)

\* one step of the path built by getUniqueSelector: "#id", "tag" or
\* "tag:nth-of-type(n)" (nth = 0 stands for no qualifier)
Step(id, tag, nth) == [id |-> id, tag |-> tag, nth |-> nth]

\* the while loop of getUniqueSelector, inject.ts:359-381
RECURSIVE SelectorPath(_)
SelectorPath(current) ==
  IF current = Null \/ current = Html THEN <<>>
  ELSE IF IdOf(current) # "" THEN <<Step(IdOf(current), "", 0)>>
  ELSE LET parent == parentElement(current)
           siblings == IF parent = Null THEN <<>>
                       ELSE SelectSeq(Children(parent),
                                      LAMBDA c : tagName(c) = tagName(current))
           nth == IF Len(siblings) > 1
                  THEN CHOOSE k \in 1..Len(siblings) : siblings[k] = current
                  ELSE 0
       IN SelectorPath(parent) \o <<Step("", toLowerCase(tagName(current)), nth)>>

\* inject.ts:353-384
getUniqueSelector(el) ==
  IF IdOf(el) # "" THEN <<Step(IdOf(el), "", 0)>> ELSE SelectorPath(el)

\* The queries of the host: a CSS selector or an XPath expression that asks
\* for a tag ("" for any) and an id ("" for any)
Query(tag, id) == [tag |-> tag, id |-> id]

\* the first element, in document order, that the query matches
FirstMatch(q) ==
  LET hits == SelectSeq(DocumentOrder,
                        LAMBDA n : /\ q.tag = "" \/ toLowerCase(tagName(n)) = q.tag
                                   /\ q.id = "" \/ IdOf(n) = q.id)
  IN IF hits = <<>> THEN Null ELSE hits[1]

\* document.querySelector(selector)
querySelector(selector) == FirstMatch(selector)

\* document.evaluate(xpath, document, null, FIRST_ORDERED_NODE_TYPE, null).singleNodeValue
evaluate(xpath) == FirstMatch(xpath)

\* The TreeWalker of highlight-text, inject.ts:447-467: the parent element of
\* the first text node under the body, in document order, whose text includes
\* the text looked for
RECURSIVE IsUnder(_, _)
IsUnder(n, ancestor) ==
  /\ n # Null
  /\ parentElement(n) = ancestor \/ IsUnder(parentElement(n), ancestor)

FirstWithText(text) ==
  LET hits == SelectSeq(DocumentOrder,
                        LAMBDA n : /\ IsUnder(n, Body)
                                   /\ textContent(n) # Empty
                                   /\ Includes(textContent(n), text))
  IN IF hits = <<>> THEN Null ELSE hits[1]

(* Colours and the configuration, inject.ts:19-39 *)

Red == <<"#", "F", "F", "4", "4", "4", "4">>
Blue == <<"#", "4", "f", "8", "c", "f", "f">>

\* "rgba(r, g, b, alpha)"
Rgba(r, g, b, alpha) == [r |-> r, g |-> g, b |-> b, alpha |-> alpha]

HexDigit(c) ==
  CASE c = "0" -> 0 [] c = "1" -> 1 [] c = "2" -> 2 [] c = "3" -> 3
    [] c = "4" -> 4 [] c = "5" -> 5 [] c = "6" -> 6 [] c = "7" -> 7
    [] c = "8" -> 8 [] c = "9" -> 9
    [] c \in {"a", "A"} -> 10 [] c \in {"b", "B"} -> 11 [] c \in {"c", "C"} -> 12
    [] c \in {"d", "D"} -> 13 [] c \in {"e", "E"} -> 14 [] c \in {"f", "F"} -> 15

\* inject.ts:388-393
hexToRgba(hex, alpha) ==
  LET parseInt(from) == 16 * HexDigit(hex[from]) + HexDigit(hex[from + 1])
  IN Rgba(parseInt(2), parseInt(4), parseInt(6), alpha)

\* inject.ts:29-37
defaultConfig ==
  [borderColor |-> Red,
   borderWidth |-> 3,
   overlayColor |-> Rgba(255, 68, 68, "0.12"),
   scrollBehavior |-> "smooth",
   scrollBlock |-> "center",
   labelBackground |-> Red,
   labelColor |-> <<"#", "F", "F", "F", "F", "F", "F">>]

\* { ...config, ...patch }
Merge(cfg, patch) ==
  [f \in DOMAIN cfg \cup DOMAIN patch |-> IF f \in DOMAIN patch THEN patch[f] ELSE cfg[f]]

(* The state of the script *)

\* no rectangle yet
NoRect == [of |-> Null]

\* the nine divs of the overlay before createOverlayElements
NoOverlay ==
  [created |-> FALSE, display |-> "", overlayColor |-> Rgba(0, 0, 0, ""),
   borderColor |-> Empty, labelColor |-> Empty, labelBackground |-> Empty,
   borderWidth |-> 0, rect |-> NoRect, label |-> Null]

HostSource == "proxy-highlight-host"
PageSource == "proxy-highlight"

\* event.data of a command of the host with the fields given: query is
\* msg.selector or msg.xpath, the fields not given are undefined (no query, no
\* text, no scroll, no color, no config, no maxDepth)
Message(type, fields) ==
  Merge([present |-> TRUE, source |-> HostSource, type |-> type,
         query |-> Query("", ""), text |-> Empty, scroll |-> "undefined",
         color |-> Empty, config |-> <<>>, maxDepth |-> [given |-> FALSE, v |-> 0]],
        fields)

\* a message event without data
NoData == Message("", [present |-> FALSE, source |-> ""])

\* an inbound event: the data of a message, the element under the pointer,
\* the key, the href of the anchor clicked, the handle of the frame
Input(fields) ==
  Merge([msg |-> NoData, node |-> Null, key |-> "", href |-> Empty, frame |-> NoFrame],
        fields)

\* inject.ts:395-399: window.parent.postMessage({ source, type, data }, "*")
notifyParent(s, type, data) ==
  [s EXCEPT !.posted = Append(@, [source |-> PageSource, type |-> type, data |-> data])]

\* The script after it ran once, inject.ts:12-722: the closure's variables,
\* the callbacks it has scheduled, the inspector's listeners on the
\* document, and what the handler that ran last did (the messages it posted,
\* the event's flags, the element it scrolled to). history is the session
\* history of the window, the URLs of its entries, the last one current.
Loaded(origin) ==
  [loaded |-> TRUE,
   config |-> defaultConfig,
   overlay |-> NoOverlay,
   currentTarget |-> Null,
   inspectorMode |-> FALSE,
   animationFrameId |-> NoFrame,
   frames |-> {},
   timers |-> <<>>,
   listeners |-> {},
   cursor |-> "",
   proxyOrigin |-> origin,
   history |-> <<HrefOf(Location)>>,
   handler |-> "init",
   input |-> Input(<<>>),
   posted |-> <<[source |-> PageSource, type |-> "ready",
                 data |-> [url |-> HrefOf(Location)]]>>,
   defaultPrevented |-> FALSE,
   propagationStopped |-> FALSE,
   scrolled |-> Null]

\* a handler starts on a new event: nothing posted, prevented or scrolled yet
Begin(s, handler, input) ==
  [s EXCEPT !.handler = handler, !.input = input, !.posted = <<>>,
            !.defaultPrevented = FALSE, !.propagationStopped = FALSE,
            !.scrolled = Null]

(* Overlay, inject.ts:57-220 *)

\* inject.ts:57-104
createOverlayElements(s) ==
  IF s.overlay.created THEN s
  ELSE [s EXCEPT !.overlay =
          [created |-> TRUE, display |-> "",
           overlayColor |-> s.config.overlayColor,
           borderColor |-> s.config.borderColor,
           labelColor |-> s.config.labelColor,
           labelBackground |-> s.config.labelBackground,
           borderWidth |-> 0, rect |-> NoRect, label |-> Null]]

\* el.getBoundingClientRect(): the rectangle of the element, wherever the
\* layout has put it by now
getBoundingClientRect(el) == [of |-> el]

\* inject.ts:106-186
positionOverlay(s, rect) ==
  IF ~s.overlay.created THEN s
  ELSE [s EXCEPT !.overlay.borderWidth = s.config.borderWidth,
                 !.overlay.rect = rect,
                 !.overlay.label = IF s.currentTarget # Null THEN s.currentTarget ELSE @]

\* inject.ts:188-203
showOverlay(s) ==
  IF s.overlay.created THEN [s EXCEPT !.overlay.display = "block"] ELSE s

\* inject.ts:205-220
hideOverlay(s) ==
  IF s.overlay.created THEN [s EXCEPT !.overlay.display = "none"] ELSE s

(* Tracking, inject.ts:289-305 *)

\* requestAnimationFrame(track): a handle that no scheduled callback has
RequestAnimationFrame(s) ==
  CHOOSE n \in 1..(Cardinality(s.frames) + 1) :
    /\ n \notin s.frames
    /\ \A m \in 1..(n - 1) : m \in s.frames

\* inject.ts:300-305
stopTracking(s) ==
  IF s.animationFrameId # NoFrame
  THEN [s EXCEPT !.frames = @ \ {s.animationFrameId}, !.animationFrameId = NoFrame]
  ELSE s

\* a start that does not cancel the loop already scheduled
startTrackingNoStop(s) ==
  [s EXCEPT !.animationFrameId = RequestAnimationFrame(s),
            !.frames = @ \cup {RequestAnimationFrame(s)}]
\* inject.ts:289-298
startTracking(s) ==
  LET t == stopTracking(s)
      id == RequestAnimationFrame(t)
  IN [t EXCEPT !.animationFrameId = id, !.frames = @ \cup {id}]

\* the callback track, inject.ts:291-296, run for the frame of handle id
track(s, id) ==
  LET t == [s EXCEPT !.frames = @ \ {id}]
      u == IF t.currentTarget # Null
           THEN positionOverlay(t, getBoundingClientRect(t.currentTarget))
           ELSE t
      next == RequestAnimationFrame(u)
  IN [u EXCEPT !.animationFrameId = next, !.frames = @ \cup {next}]

(* Highlighting, inject.ts:224-285 *)

Options(scroll, color) == [scroll |-> scroll, color |-> color]

\* the colour of the command, inject.ts:238-249
ApplyColor(s, color) ==
  IF color = Empty THEN s
  ELSE LET c == [s EXCEPT !.config.borderColor = color,
                          !.config.overlayColor = hexToRgba(color, "0.12"),
                          !.config.labelBackground = color]
       IN IF c.overlay.created
          THEN [c EXCEPT !.overlay.borderColor = c.config.borderColor,
                         !.overlay.overlayColor = c.config.overlayColor,
                         !.overlay.labelBackground = c.config.labelBackground]
          ELSE c

\* a clearing that leaves the loop scheduled
clearHighlightKeepsLoop(s) ==
  [hideOverlay(createOverlayElements(s)) EXCEPT !.currentTarget = Null]
\* highlightElement(null), inject.ts:228-235
clearHighlight(s) ==
  stopTracking([hideOverlay(createOverlayElements(s)) EXCEPT !.currentTarget = Null])

\* inject.ts:224-285: scrolled is the element of scrollIntoView, timers the
\* callbacks of setTimeout(..., 500), each for its element
highlightElement(s, el, options) ==
  IF el = Null THEN clearHighlight(s)
  ELSE LET a == ApplyColor(createOverlayElements(s), options.color)
           b == [a EXCEPT !.currentTarget = el]
           rect == getBoundingClientRect(el)
           c == startTracking(showOverlay(positionOverlay(b, rect)))
           d == IF options.scroll
                THEN [c EXCEPT !.scrolled = el, !.timers = Append(@, el)]
                ELSE c
       IN notifyParent(d, "element-highlighted",
                       [selector |-> getUniqueSelector(el),
                        tagName |-> toLowerCase(tagName(el)),
                        id |-> IdOf(el), rect |-> rect, text |-> textContent(el)])

\* a callback that re-positions the overlay whatever the target is by now
repositionAlways(s, el) == positionOverlay(s, getBoundingClientRect(el))

\* the callback of the setTimeout, inject.ts:264-268
reposition(s, el) ==
  IF s.currentTarget = el THEN positionOverlay(s, getBoundingClientRect(el)) ELSE s

(* Inspector mode, inject.ts:309-349 *)

InspectorListeners == {"mousemove", "click"}

\* inject.ts:309-316
enableInspector(s) ==
  IF s.inspectorMode THEN s
  ELSE notifyParent([s EXCEPT !.inspectorMode = TRUE,
                              !.listeners = @ \cup InspectorListeners,
                              !.cursor = "crosshair"],
                    "inspector-mode", [enabled |-> TRUE])

\* a disableInspector that leaves the click listener on the document
disableInspectorKeepsClick(s) ==
  IF ~s.inspectorMode THEN s
  ELSE notifyParent([s EXCEPT !.inspectorMode = FALSE,
                              !.listeners = @ \ {"mousemove"},
                              !.cursor = ""],
                    "inspector-mode", [enabled |-> FALSE])
\* inject.ts:318-325
disableInspector(s) ==
  IF ~s.inspectorMode THEN s
  ELSE notifyParent([s EXCEPT !.inspectorMode = FALSE,
                              !.listeners = @ \ InspectorListeners,
                              !.cursor = ""],
                    "inspector-mode", [enabled |-> FALSE])

\* inject.ts:327-337; target is document.elementFromPoint(e.clientX, e.clientY)
onInspectorMove(s, target) ==
  IF /\ target # Null
     /\ ~hasAttribute(target, OverlayMarker)
     /\ target # Html
     /\ target # Body
  THEN highlightElement(s, target, Options(FALSE, Empty))
  ELSE s

\* a click that highlights the element and leaves the inspector on
onInspectorClickStay(s, target) ==
  LET p == [s EXCEPT !.defaultPrevented = TRUE, !.propagationStopped = TRUE]
  IN IF target # Null /\ ~hasAttribute(target, OverlayMarker)
     THEN highlightElement(p, target, Options(FALSE, Empty))
     ELSE p
\* inject.ts:339-349
onInspectorClick(s, target) ==
  LET p == [s EXCEPT !.defaultPrevented = TRUE, !.propagationStopped = TRUE]
  IN IF target # Null /\ ~hasAttribute(target, OverlayMarker)
     THEN disableInspector(highlightElement(p, target, Options(FALSE, Empty)))
     ELSE p

(* The DOM tree query, inject.ts:551-582 *)

\* buildDomTree returned null
NoNode == [tag |-> ""]

\* maxDepth when the message gives none, inject.ts:498
DefaultDepth == 4

RECURSIVE buildDomTree(_, _, _)
buildDomTree(el, maxDepth, depth) ==
  IF depth > maxDepth THEN NoNode
  ELSE IF hasAttribute(el, OverlayMarker) THEN NoNode
  ELSE IF hasAttribute(el, Marker) THEN NoNode
  ELSE [tag |-> toLowerCase(tagName(el)),
        selector |-> getUniqueSelector(el),
        id |-> IdOf(el),
        text |-> textContent(el),
        children |->
          IF Len(Children(el)) > 0 /\ depth < maxDepth
          THEN SelectSeq([k \in 1..Len(Children(el)) |->
                            buildDomTree(Children(el)[k], maxDepth, depth + 1)],
                         LAMBDA node : node # NoNode)
          ELSE <<>>]

(* The commands of the host, inject.ts:403-538 *)

\* a lookup miss that also clears the highlight
NotFoundClears(s, data) == notifyParent(clearHighlight(s), "error", data)
\* the lookup of a highlight command found no element: inject.ts:415-419,
\* 437-441, 468-472
NotFound(s, data) == notifyParent(s, "error", data)

\* a filter that accepts any message with data
AcceptedAnySource(msg) == msg.present
\* the filter of the listener, inject.ts:405
Accepted(msg) == msg.present /\ msg.source = HostSource

onMessage(s, msg) ==
  IF ~Accepted(msg) THEN s
  ELSE CASE msg.type = "highlight-selector" ->
              LET el == querySelector(msg.query)
              IN IF el # Null
                 THEN highlightElement(s, el, Options(msg.scroll # "false", msg.color))
                 ELSE NotFound(s, [message |-> "Element not found", what |-> msg.query])
         [] msg.type = "highlight-xpath" ->
              LET el == evaluate(msg.query)
              IN IF el # Null
                 THEN highlightElement(s, el, Options(msg.scroll # "false", msg.color))
                 ELSE NotFound(s, [message |-> "Element not found", what |-> msg.query])
         [] msg.type = "highlight-text" ->
              LET el == FirstWithText(msg.text)
              IN IF el # Null
                 THEN highlightElement(s, el, Options(msg.scroll # "false", msg.color))
                 ELSE NotFound(s, [message |-> "No element containing text",
                                   text |-> msg.text])
         [] msg.type = "enable-inspector" -> enableInspector(s)
         [] msg.type = "disable-inspector" -> disableInspector(s)
         [] msg.type = "clear-highlight" -> disableInspector(highlightElement(s, Null, Options(TRUE, Empty)))
         [] msg.type = "update-config" ->
              LET c == [s EXCEPT !.config = Merge(s.config, msg.config)]
              IN IF c.currentTarget # Null
                 THEN highlightElement(c, c.currentTarget, Options(FALSE, Empty))
                 ELSE c
         [] msg.type = "get-dom-tree" ->
              LET maxDepth == IF msg.maxDepth.given /\ msg.maxDepth.v # 0
                              THEN msg.maxDepth.v
                              ELSE DefaultDepth
              IN notifyParent(s, "dom-tree", [tree |-> buildDomTree(Body, maxDepth, 0)])
         [] msg.type = "get-element-info" ->
              LET el == querySelector(msg.query)
              IN IF el # Null
                 THEN notifyParent(s, "element-info",
                                   [selector |-> msg.query,
                                    tagName |-> toLowerCase(tagName(el)),
                                    id |-> IdOf(el),
                                    rect |-> getBoundingClientRect(el),
                                    text |-> textContent(el),
                                    childCount |-> Len(Children(el))])
                 ELSE s
         [] OTHER -> s

(* The keyboard, inject.ts:586-603 *)

\* key is "Escape", "Ctrl+Shift+C" (or Cmd) or another key
onKeyDown(s, key) ==
  IF key = "Escape"
  THEN highlightElement(IF s.inspectorMode THEN disableInspector(s) ELSE s,
                        Null, Options(TRUE, Empty))
  ELSE IF key = "Ctrl+Shift+C"
  THEN LET p == [s EXCEPT !.defaultPrevented = TRUE]
       IN IF p.inspectorMode THEN disableInspector(p) ELSE enableInspector(p)
  ELSE s

(* Link interception, inject.ts:609-668 *)

Mailto == <<"m", "a", "i", "l", "t", "o", ":">>
Tel == <<"t", "e", "l", ":">>

\* the while loop of inject.ts:616-619
RECURSIVE ClosestAnchor(_)
ClosestAnchor(target) ==
  IF target = Null \/ tagName(target) = "A" THEN target
  ELSE ClosestAnchor(parentElement(target))

\* anchor.textContent: the texts of the element and of its descendants
RECURSIVE DeepText(_)
RECURSIVE DeepTexts(_, _)
DeepTexts(els, k) ==
  IF k > Len(els) THEN Empty ELSE DeepText(els[k]) \o DeepTexts(els, k + 1)
DeepText(n) == textContent(n) \o DeepTexts(Children(n), 1)

\* the listener for an event whose target is the element target, the closest
\* anchor of which has the attribute href (Empty for none)
onLinkClick(s, target, href) ==
  IF s.inspectorMode THEN s
  ELSE IF ClosestAnchor(target) = Null THEN s
  ELSE IF href = Empty THEN s
  ELSE IF \/ StartsWith(href, Hash)
          \/ StartsWith(href, JavascriptScheme)
          \/ StartsWith(href, Mailto)
          \/ StartsWith(href, Tel)
       THEN s
  ELSE IF /\ ~UrlThrows(href)
          /\ ResolveUrl(href).pathname = Location.pathname
          /\ ResolveUrl(href).search = Location.search
          /\ ResolveUrl(href).hash # Location.hash
       THEN s
  ELSE LET resolved == ResolveUrl(href)
           origin == s.proxyOrigin
           fullUrl == IF UrlThrows(href) THEN href
                      ELSE IF origin # Empty
                      THEN origin \o resolved.pathname \o resolved.search \o resolved.hash
                      ELSE HrefOf(resolved)
           anchor == ClosestAnchor(target)
       IN notifyParent([s EXCEPT !.defaultPrevented = TRUE, !.propagationStopped = TRUE],
                       "link-navigation",
                       [url |-> fullUrl, text |-> DeepText(anchor),
                        selector |-> getUniqueSelector(anchor)])

\* a dispatch that runs the inspector's listener before the link listener
onClickInspectorFirst(s, target, href) ==
  onLinkClick(IF "click" \in s.listeners THEN onInspectorClick(s, target) ELSE s,
              target, href)

\* A click: the capturing listeners of the document run in the order of
\* their registration, the link listener (inject.ts:609) before the
\* inspector's (inject.ts:313), which runs if it is installed when the
\* event is dispatched. The element under the pointer is the event's target.
onClick(s, target, href) ==
  LET a == onLinkClick(s, target, href)
  IN IF "click" \in s.listeners THEN onInspectorClick(a, target) ELSE a

(* The history overrides, inject.ts:670-717: neither calls the primitive *)
(* it replaced (origPushState, origReplaceState), so history stays.       *)

\* inject.ts:674-694; url is the third argument, Empty for none
pushState(s, url) ==
  IF url # Empty
  THEN LET resolved == ResolveUrl(url)
           origin == s.proxyOrigin
           fullUrl == IF UrlThrows(url) THEN url
                      ELSE IF origin # Empty
                      THEN origin \o resolved.pathname \o resolved.search \o resolved.hash
                      ELSE HrefOf(resolved)
       IN notifyParent(s, "link-navigation",
                       [url |-> fullUrl, text |-> Empty, selector |-> <<>>,
                        type |-> "pushState"])
  ELSE s

\* inject.ts:696-717
replaceState(s, url) ==
  IF url # Empty /\ url # HrefOf(Location)
  THEN LET resolved == ResolveUrl(url)
           origin == s.proxyOrigin
           fullUrl == IF UrlThrows(url) THEN url
                      ELSE IF origin # Empty
                      THEN origin \o resolved.pathname \o resolved.search \o resolved.hash
                      ELSE HrefOf(resolved)
       IN notifyParent(s, "link-navigation",
                       [url |-> fullUrl, text |-> Empty, selector |-> <<>>,
                        type |-> "replaceState"])
  ELSE s

(* The events of a page *)

\* window.__PROXY_ORIGIN__, set by the runtime patch (server.ts:177) to the
\* resolved origin of the document
PageOrigins == { OriginT }

\* the elements the pointer can be over (the overlay has pointer-events: none)
Pointable == { "body", "link", "em" }

\* href attributes of the page's anchor
Hrefs ==
  { Empty,
    OriginO \o <<"/", "y">>,
    <<"/", "z">>,
    Hash \o <<"f">>,
    HrefOf(Location) \o Hash \o <<"f">>,
    Mailto \o <<"x">>,
    Http }

\* The commands of the host: highlight by selector (#main, #none) with and
\* without scroll: false and a color, by XPath (//p, //p[@id="none"]), by text,
\* the inspector's, the clearing, a config, a tree query with and without a
\* depth, an element query
HostMessages ==
  { Message("highlight-selector", [query |-> q, scroll |-> a.scroll, color |-> a.color]) :
      q \in { Query("", "main"), Query("", "none") },
      a \in { [scroll |-> "undefined", color |-> Empty],
              [scroll |-> "false", color |-> Blue] } }
  \cup
  { Message("highlight-xpath", [query |-> q]) : q \in { Query("p", ""), Query("p", "none") } }
  \cup
  { Message("highlight-text", [text |-> t]) : t \in { <<"g">>, <<"z">> } }
  \cup
  { Message(type, <<>>) : type \in { "enable-inspector", "disable-inspector", "clear-highlight" } }
  \cup
  { Message("update-config", [config |-> c]) :
      c \in { <<>>, [borderColor |-> Blue, borderWidth |-> 2,
                     overlayColor |-> Rgba(79, 140, 255, "0.12")] } }
  \cup
  { Message("get-dom-tree", [maxDepth |-> d]) :
      d \in { [given |-> FALSE, v |-> 0] } \cup { [given |-> TRUE, v |-> n] : n \in 0..MaxDepth } }
  \cup
  { Message("get-element-info", [query |-> q]) :
      q \in { Query("", "main"), Query("", "none") } }

\* messages of other senders: commands under another source or none, and
\* an event without data
ForeignMessages ==
  { Message("enable-inspector", [source |-> PageSource]),
    Message("highlight-selector", [source |-> "", query |-> Query("", "main"), color |-> Blue]),
    Message("update-config", [source |-> "host", config |-> [borderWidth |-> 2]]),
    NoData }

\* a message event, inject.ts:403-538
Receive ==
  \E msg \in HostMessages \cup ForeignMessages :
    /\ page' = onMessage(Begin(page, "message", Input([msg |-> msg])), msg)
    /\ Len(page'.timers) <= MaxTimers
    /\ UNCHANGED <<serverVars, htmlVars, patchVars, winVars>>

\* a mousemove event while the inspector's listener is installed, inject.ts:327-337
MouseMove ==
  \E target \in Pointable :
    /\ "mousemove" \in page.listeners
    /\ page' = onInspectorMove(Begin(page, "mousemove", Input([node |-> target])),
                               target)
    /\ UNCHANGED <<serverVars, htmlVars, patchVars, winVars>>

\* a click event, inject.ts:339-349 and 609-668
Click ==
  \E target \in Pointable :
    \E href \in (IF ClosestAnchor(target) = Null THEN {Empty} ELSE Hrefs) :
      /\ page' = onClick(Begin(page, "click", Input([node |-> target, href |-> href])),
                         target, href)
      /\ UNCHANGED <<serverVars, htmlVars, patchVars, winVars>>

\* a keydown event, inject.ts:586-603
KeyDown ==
  \E key \in { "Escape", "Ctrl+Shift+C", "a" } :
    /\ page' = onKeyDown(Begin(page, "keydown", Input([key |-> key])), key)
    /\ UNCHANGED <<serverVars, htmlVars, patchVars, winVars>>

\* an animation frame: a scheduled callback runs, inject.ts:291-296
Frame ==
  \E id \in page.frames :
    /\ page' = track(Begin(page, "frame", Input([frame |-> id])), id)
    /\ UNCHANGED <<serverVars, htmlVars, patchVars, winVars>>

\* 500 ms have passed since the oldest pending setTimeout, inject.ts:264-268
Timeout ==
  /\ page.timers # <<>>
  /\ page' = reposition([Begin(page, "timeout", Input([node |-> Head(page.timers)]))
                           EXCEPT !.timers = Tail(@)],
                        Head(page.timers))
  /\ UNCHANGED <<serverVars, htmlVars, patchVars, winVars>>

\* the page's own script calls history.pushState(state, title, url) with no
\* URL, a root-relative one, a fragment, or the page's own
PushState ==
  \E url \in { Empty, <<"/", "z">>, Hash \o <<"f">>, HrefOf(Location) } :
    /\ page' = pushState(Begin(page, "pushState", Input([href |-> url])), url)
    /\ UNCHANGED <<serverVars, htmlVars, patchVars, winVars>>

\* the page's own script calls history.replaceState(state, title, url)
ReplaceState ==
  \E url \in { Empty, <<"/", "z">>, Hash \o <<"f">>, HrefOf(Location) } :
    /\ page' = replaceState(Begin(page, "replaceState", Input([href |-> url])), url)
    /\ UNCHANGED <<serverVars, htmlVars, patchVars, winVars>>

NextPage ==
  Receive \/ MouseMove \/ Click \/ KeyDown \/ Frame \/ Timeout \/ PushState \/ ReplaceState

InitPageSpec ==
  /\ InitServer /\ IdleHtml /\ IdlePatch /\ IdleWindow
  /\ page \in { Loaded(o) : o \in PageOrigins }

SpecPage == InitPageSpec /\ [][NextPage]_vars

----------------------------------------------------------------------------
(* The runtime patch executing in a page, server.ts:171-347.  The model    *)
(* takes every property the patch assigns to be assignable, as the code    *)
(* does.                                                                   *)

\* the primitives the patch overrides, in the order of its statements
Overrides ==
  <<"fetch", "XMLHttpRequest.open", "createElement", "appendChild", "insertBefore",
    "open", "Image", "EventSource", "WebSocket", "location.assign", "location.replace">>

\* the primitives an environment may lack
Optional ==
  {"fetch", "XMLHttpRequest.open", "Image", "EventSource", "WebSocket",
   "location.assign", "location.replace"}

\* no element
NoElement == [tag |-> ""]

\* an argument that is a string, an object that is none (a URL object), or
\* undefined
Value(kind, text) == [kind |-> kind, text |-> text]

\* the arguments of a call: of location.assign, createElement, setAttribute,
\* appendChild, the WebSocket constructor
Arg(fields) ==
  Merge([url |-> Value("undefined", Empty), tag |-> "", name |-> "", value |-> Empty,
         child |-> NoElement],
        fields)

\* The window of a page built for the origin ORIGIN, before any script ran:
\* present are the primitives the environment has, layers counts the
\* overrides stacked on each primitive, el is the element the page's script
\* created last; the other fields are what the last call did: whether it
\* raised an exception into the page, the messages it posted to the parent,
\* whether the page navigated, the node that entered the document, the URL
\* the original WebSocket constructor was called with.
Window(ORIGIN, present) ==
  [open |-> TRUE,
   ORIGIN |-> ORIGIN,
   present |-> present,
   layers |-> [p \in { Overrides[k] : k \in 1..Len(Overrides) } |-> 0],
   runs |-> 0,
   proxyOrigin |-> Empty,
   el |-> NoElement,
   call |-> "none",
   arg |-> Arg(<<>>),
   threw |-> FALSE,
   posted |-> <<>>,
   navigated |-> FALSE,
   inserted |-> NoElement,
   socket |-> Empty]

\* a call starts: nothing raised, posted, navigated, inserted or opened yet
Call(w, call, arg) ==
  [w EXCEPT !.call = call, !.arg = arg, !.threw = FALSE, !.posted = <<>>,
            !.navigated = FALSE, !.inserted = NoElement, !.socket = Empty]

(* The bootstrap, server.ts:174-344 *)

\* The statements of the bootstrap for the primitive p, where the primitive
\* exists if the environment has it or an earlier run has assigned it:
\*   201-209, 219-230, 251-260, 282-285  assigned whatever was there before
\*   212  XMLHttpRequest.prototype: a ReferenceError without XMLHttpRequest
\*   288-294  window.Image assigned, then _Image.prototype: a TypeError
\*            when _Image is undefined
\*   297, 304, 326-341  skipped when the primitive is missing
Install(w, p) ==
  LET exists == p \notin Optional \/ p \in w.present \/ w.layers[p] > 0 IN
  IF exists THEN [w EXCEPT !.layers[p] = @ + 1]
  ELSE IF p = "XMLHttpRequest.open" THEN [w EXCEPT !.threw = TRUE]
  ELSE IF p = "Image" THEN [w EXCEPT !.layers[p] = @ + 1, !.threw = TRUE]
  ELSE IF p = "fetch" THEN [w EXCEPT !.layers[p] = @ + 1]
  ELSE w

\* the statements from the k-th primitive on; an exception ends the script
RECURSIVE InstallFrom(_, _)
InstallFrom(w, k) ==
  IF k > Len(Overrides) \/ w.threw THEN w
  ELSE InstallFrom(Install(w, Overrides[k]), k + 1)

\* server.ts:174-344: one execution of the generated script
bootstrap(w) ==
  InstallFrom([w EXCEPT !.runs = @ + 1, !.proxyOrigin = w.ORIGIN], 1)

(* location.assign / location.replace, server.ts:325-341 *)

\* the override of location.assign (type "location.assign") or of
\* location.replace: url.startsWith is no function of an object that is not
\* a string; the original primitive is never called
postNavigation(w, url, type) ==
  IF url.kind = "object" THEN [w EXCEPT !.threw = TRUE]
  ELSE LET full == IF url.kind = "string" /\ url.text # Empty /\ StartsWith(url.text, <<"/">>)
                   THEN Value("string", w.ORIGIN \o url.text)
                   ELSE url
       IN [w EXCEPT !.posted =
             Append(@, [source |-> PageSource, type |-> "link-navigation",
                        data |-> [url |-> full, text |-> Empty, selector |-> Empty,
                                  type |-> type]])]

\* location.assign(url) or location.replace(url) as the page finds it: the
\* override once the bootstrap installed it, the browser's navigation before
navigate(w, p, url) ==
  IF w.layers[p] > 0 THEN postNavigation(w, url, p) ELSE [w EXCEPT !.navigated = TRUE]

(* document.createElement, server.ts:218-248 *)

\* server.ts:220-230: own names the attribute the element's own
\* setAttribute strips, src after patchElSrc, href after patchElHref
createElement(w, tag) ==
  LET t == toLowerCase(tag)
      own == IF w.layers["createElement"] = 0 THEN ""
             ELSE IF t \in {"script", "img", "video", "audio", "source", "embed"} THEN "src"
             ELSE IF t = "link" THEN "href"
             ELSE ""
  IN [w EXCEPT !.el = [tag |-> t, attrs |-> NoAttrs, own |-> own, children |-> <<>>]]

\* el.setAttribute(n, v): server.ts:234-238 and 243-247 on a patched
\* element, HTMLElement.prototype.setAttribute on any other
setAttribute(el, n, v, ORIGIN) ==
  IF el.own = "" THEN SetAttr(el, n, v)
  ELSE IF n = "integrity" THEN el
  ELSE SetAttr(el, n, IF n = el.own THEN strip(v, ORIGIN) ELSE v)

(* appendChild / insertBefore, server.ts:250-279 *)

\* server.ts:262-279; a text node has no tagName
fixChild(child, ORIGIN) ==
  IF child.tag = "" THEN child
  ELSE LET Fix(c, n) ==
             IF Attr(c, n) # Empty /\ StartsWith(Attr(c, n), ORIGIN)
             THEN setAttribute(c, n, IF Slice(Attr(c, n), Len(ORIGIN)) = Empty
                                     THEN <<"/">>
                                     ELSE Slice(Attr(c, n), Len(ORIGIN)),
                               ORIGIN)
             ELSE c
       IN RemoveAttrs(Fix(Fix(child, "src"), "href"), {"integrity", "crossorigin"})

\* server.ts:252-260: the child as the original primitive receives it from
\* n overrides stacked on it, each of which runs fixChild and calls what it
\* replaced
RECURSIVE insertThrough(_, _, _)
insertThrough(n, child, ORIGIN) ==
  IF n = 0 THEN child ELSE insertThrough(n - 1, fixChild(child, ORIGIN), ORIGIN)

(* WebSocket, server.ts:303-323 *)

Ws == <<"w", "s", ":", "/", "/">>
Wss == <<"w", "s", "s", ":", "/", "/">>

\* the port a URL of the scheme has when it names none
DefaultPort(scheme) ==
  IF scheme \in {Wss, Https} THEN <<"4", "4", "3">> ELSE <<"8", "0">>

\* new URL(u) for an absolute URL of the schemes ws, wss, http and https:
\* its protocol (with the slashes), hostname, port (empty for the scheme's
\* default) and the rest of it, path, query and fragment; ok is false where
\* the constructor throws
NewUrl(u) ==
  LET scheme == IF StartsWith(u, Wss) THEN Wss
                ELSE IF StartsWith(u, Ws) THEN Ws
                ELSE SchemeOf(u)
      authority == SubSeq(u, Len(scheme) + 1, Len(scheme) + HostLen(u, Len(scheme) + 1))
      colon == IndexOfAny(authority, {":"}, 1)
      port == SubSeq(authority, colon + 1, Len(authority))
      rest == Slice(u, Len(scheme) + Len(authority))
  IN [ok |-> scheme # Empty /\ colon > 1,
      protocol |-> scheme,
      hostname |-> SubSeq(authority, 1, colon - 1),
      port |-> IF port = DefaultPort(scheme) THEN Empty ELSE port,
      rest |-> IF rest = Empty THEN <<"/">> ELSE rest]

\* p.href
UrlHref(p) ==
  p.protocol \o p.hostname \o (IF p.port = Empty THEN Empty ELSE <<":">> \o p.port) \o p.rest

\* server.ts:306-316: the URL one override hands to the constructor it
\* replaced; an exception of new URL is caught and leaves the URL as it is
redirectSocket(url, ORIGIN) ==
  LET p == NewUrl(url)
      t == NewUrl(ORIGIN)
      location == NewUrl(HrefOf(Location))
      port == IF t.port # Empty THEN t.port
              ELSE IF p.protocol = Wss THEN <<"4", "4", "3">> ELSE <<"8", "0">>
  IN IF p.ok /\ p.hostname = location.hostname /\ p.port = location.port /\ t.ok
     THEN UrlHref([p EXCEPT !.hostname = t.hostname,
                            !.port = IF port = DefaultPort(p.protocol) THEN Empty ELSE port])
     ELSE url

\* the URL the original constructor receives from n stacked overrides
RECURSIVE WebSocket(_, _, _)
WebSocket(n, url, ORIGIN) ==
  IF n = 0 THEN url ELSE WebSocket(n - 1, redirectSocket(url, ORIGIN), ORIGIN)

(* The calls of a page *)

\* how often the generated script may execute in one page
MaxRuns == 2

\* how many attributes the page's script gives the element it created
MaxAttrs == 1

\* the origin the patch was generated for, and what the environment has:
\* everything, or everything but one primitive
Windows ==
  { Window(OriginT, Optional \ missing) : missing \in {{}} \cup { {p} : p \in Optional } }
  \cup { Window(o, Optional) : o \in { Https \o <<"t">>, OriginT \o <<":", "8">> } }

\* URLs a script assigns to an attribute: of the target origin, of a host
\* that the origin is a prefix of, of another origin
UrlsOf(ORIGIN) ==
  { ORIGIN \o <<"/", "x">>, ORIGIN \o <<".", "e", "/", "x">>, OriginO \o <<"/", "x">> }

\* what a script navigates to: a root-relative URL, an absolute one, a URL
\* object, nothing
Destinations ==
  { Value("string", <<"/", "x">>), Value("string", OriginO \o <<"/", "x">>),
    Value("object", OriginO \o <<"/", "x">>), Value("undefined", Empty) }

\* an element not made by createElement (parsed from markup, cloned)
Node(tag, attrs, children) ==
  [tag |-> tag, attrs |-> attrs, own |-> "", children |-> children]

\* nodes a script inserts: the element it created, a text node, an image
\* and a style sheet link of the target origin, and a div holding such an
\* image
NodesOf(w) ==
  LET img == Node("img", [n \in {"src", "integrity", "crossorigin"} |->
                            IF n = "src" THEN w.ORIGIN \o <<"/", "x">> ELSE <<"v">>], <<>>)
  IN { w.el, img,
       Node("link", [n \in {"href"} |-> w.ORIGIN], <<>>),
       Node("div", NoAttrs, <<img>>) }

\* the generated script executes, server.ts:173-345
RunPatch ==
  /\ win.runs < MaxRuns
  /\ win' = bootstrap(Call(win, "bootstrap", Arg(<<>>)))
  /\ UNCHANGED <<serverVars, htmlVars, patchVars, pageVars>>

\* a script of the page calls location.assign(url)
LocationAssign ==
  \E url \in Destinations :
    /\ win.runs >= 1
    /\ "location.assign" \in win.present
    /\ win' = navigate(Call(win, "location.assign", Arg([url |-> url])),
                       "location.assign", url)
    /\ UNCHANGED <<serverVars, htmlVars, patchVars, pageVars>>

\* a script of the page calls location.replace(url)
LocationReplace ==
  \E url \in Destinations :
    /\ win.runs >= 1
    /\ "location.replace" \in win.present
    /\ win' = navigate(Call(win, "location.replace", Arg([url |-> url])),
                       "location.replace", url)
    /\ UNCHANGED <<serverVars, htmlVars, patchVars, pageVars>>

\* a script of the page calls document.createElement(tag)
CreateElement ==
  \E tag \in { "SCRIPT", "link", "div" } :
    /\ win.runs >= 1
    /\ win' = createElement(Call(win, "createElement", Arg([tag |-> tag])), tag)
    /\ UNCHANGED <<serverVars, htmlVars, patchVars, pageVars>>

\* a script of the page calls el.setAttribute(n, v) on the element it created
SetAttribute ==
  \E n \in { "src", "href", "integrity" }, v \in UrlsOf(win.ORIGIN) :
    /\ win.el # NoElement
    /\ HasAttr(win.el, n) \/ Cardinality(DOMAIN win.el.attrs) < MaxAttrs
    /\ win' = [Call(win, "setAttribute", Arg([name |-> n, value |-> v]))
                 EXCEPT !.el = setAttribute(@, n, v, win.ORIGIN)]
    /\ UNCHANGED <<serverVars, htmlVars, patchVars, pageVars>>

\* a script of the page assigns el.src, el.href or el.integrity: the
\* property's setter writes the attribute and calls no setAttribute
SetProperty ==
  \E n \in { "src", "href", "integrity" }, v \in UrlsOf(win.ORIGIN) :
    /\ win.el # NoElement
    /\ HasAttr(win.el, n) \/ Cardinality(DOMAIN win.el.attrs) < MaxAttrs
    /\ win' = [Call(win, "setProperty", Arg([name |-> n, value |-> v]))
                 EXCEPT !.el = SetAttr(@, n, v)]
    /\ UNCHANGED <<serverVars, htmlVars, patchVars, pageVars>>

\* a script of the page calls parent.appendChild(child), server.ts:252-255
AppendChild ==
  \E child \in NodesOf(win) :
    /\ win.runs >= 1
    /\ win' = [Call(win, "appendChild", Arg([child |-> child]))
                 EXCEPT !.inserted = insertThrough(win.layers["appendChild"], child, win.ORIGIN)]
    /\ UNCHANGED <<serverVars, htmlVars, patchVars, pageVars>>

\* a script of the page calls parent.insertBefore(child, ref), server.ts:257-260
InsertBefore ==
  \E child \in NodesOf(win) :
    /\ win.runs >= 1
    /\ win' = [Call(win, "insertBefore", Arg([child |-> child]))
                 EXCEPT !.inserted = insertThrough(win.layers["insertBefore"], child, win.ORIGIN)]
    /\ UNCHANGED <<serverVars, htmlVars, patchVars, pageVars>>

\* a script of the page calls new WebSocket(url): a socket of the page's own
\* host and port, of its host under wss, of another port, of another host,
\* without path, or a relative URL
NewWebSocket ==
  \E url \in { Ws \o <<"l", "/", "h", "?", "q">>, Wss \o <<"l", "/", "h">>,
               Ws \o <<"l", ":", "8", "/", "h">>, Ws \o <<"o", "/", "h">>,
               Ws \o <<"l">>, <<"/", "h">> } :
    /\ win.runs >= 1
    /\ "WebSocket" \in win.present
    /\ win' = [Call(win, "WebSocket", Arg([value |-> url]))
                 EXCEPT !.socket = WebSocket(win.layers["WebSocket"], url, win.ORIGIN)]
    /\ UNCHANGED <<serverVars, htmlVars, patchVars, pageVars>>

NextWindow ==
  \/ RunPatch
  \/ LocationAssign
  \/ LocationReplace
  \/ CreateElement
  \/ SetAttribute
  \/ SetProperty
  \/ AppendChild
  \/ InsertBefore
  \/ NewWebSocket

InitWindowSpec == InitServer /\ IdleHtml /\ IdlePatch /\ IdlePage /\ win \in Windows

SpecWindow == InitWindowSpec /\ [][NextWindow]_vars
----------------------------------------------------------------------------
(* Claims about the server *)

Arrived == Len(reqs') = Len(reqs) + 1

Newest == reqs'[Len(reqs')]

LastHtmlOrigin == htmlLog[Len(htmlLog)]

IsStatus(q, code) == q.res.sent /\ q.res.status = code

C1_Arrival ==
  (Arrived /\ Newest.route = "catchall") =>
     /\ currentTargetOrigin = Empty =>
          /\ IsStatus(Newest, 404)
          /\ Newest.fetches = <<>>
          /\ Newest.pc = "done"
     /\ htmlLog # <<>> =>
          /\ ~Newest.res.sent
          /\ Newest.targetUrl = LastHtmlOrigin \o Newest.originalUrl
          /\ Newest.fetches \in {<<>>, <<LastHtmlOrigin \o Newest.originalUrl>>}

C1_Later ==
  \A i \in Ids :
    reqs[i].route = "catchall" =>
      /\ reqs'[i].targetUrl = reqs[i].targetUrl
      /\ reqs'[i].fetches \in {reqs[i].fetches, Append(reqs[i].fetches, reqs[i].targetUrl)}
      /\ (reqs[i].pc = "done" => reqs'[i].fetches = reqs[i].fetches)

C1_Unset == htmlLog = <<>> <=> currentTargetOrigin = Empty

\* C1: a catch-all request handled while the target origin is unset (no HTML
\* document was proxied yet) is answered 404 and fetches nothing; one handled
\* after an HTML document was proxied to O is forwarded to O followed by the
\* request's original path and query, and to nothing else.
C1_CatchAllForward == [][C1_Arrival /\ C1_Later]_vars /\ []C1_Unset

C1_Witness ==
  \E i \in Ids :
    /\ reqs[i].route = "catchall"
    /\ reqs[i].fetches = <<OriginO \o SomePath \o SomeQuery>>
    /\ currentTargetOrigin = OriginO

C2_OnlyHtml ==
  currentTargetOrigin' # currentTargetOrigin =>
    \E i \in Ids :
      /\ reqs[i].route = "proxy"
      /\ reqs[i].pc = "fetching"
      /\ reqs'[i].pc = "reading"
      /\ isHtml(reqs'[i].up[1].ct)

C2_Written ==
  \A i \in Ids :
    (reqs[i].route = "proxy" /\ reqs[i].pc = "fetching" /\ reqs'[i].pc = "reading") =>
       IF isHtml(reqs'[i].up[1].ct)
       THEN currentTargetOrigin' = UrlOrigin(reqs'[i].up[1].url)
       ELSE currentTargetOrigin' = currentTargetOrigin

\* C2: the target origin changes only in the step in which a /proxy request
\* receives an upstream response of an HTML content type, and that step sets
\* it to the origin of the response's final URL; every other step (non-HTML
\* responses, failed fetches, 400s, OPTIONS, the catch-all) leaves it alone.
C2_OriginWrittenByHtmlOnly == [][C2_OnlyHtml /\ C2_Written]_vars

C2_Witness ==
  \E i \in Ids :
    /\ reqs[i].route = "proxy"
    /\ reqs[i].up # <<>>
    /\ isHtml(reqs[i].up[1].ct)
    /\ UrlOrigin(reqs[i].up[1].url) # UrlOrigin(reqs[i].targetUrl)
    /\ currentTargetOrigin = UrlOrigin(reqs[i].up[1].url)

\* what processAndSend sends for a response, by content type
Rewritten(response) ==
  IF isHtml(response.ct)
  THEN [kind |-> "html", doc |-> rewriteHtml(response.body.doc, response.url)]
  ELSE IF isCss(response.ct) \/ isJs(response.ct) \/ response.ct \in JsonTypes
  THEN [kind |-> "text", text |-> stripOriginInText(response.body.text, UrlOrigin(response.url))]
  ELSE [kind |-> "bytes", text |-> response.body.text]

\* C3: for every upstream response received, the response sent to the client
\* has the upstream's status code, and the body rewritten by content type.
C3_StatusForwarded ==
  \A i \in Ids :
    (reqs[i].up # <<>> /\ reqs[i].res.sent) =>
       /\ reqs[i].res.status = reqs[i].up[1].status
       /\ reqs[i].res.body = Rewritten(reqs[i].up[1])

FetchFailed(q) == q.err \in FetchErrors

C4_Answer ==
  \A i \in Ids :
    /\ Len(reqs[i].fetches) <= 1
    /\ FetchFailed(reqs[i]) =>
         /\ IsStatus(reqs[i], 502)
         /\ reqs[i].pc = "done"
         /\ reqs[i].fetches # <<>>
         /\ reqs[i].res.body.kind = "json"
         /\ reqs[i].res.body.url = reqs[i].fetches[1]
         /\ reqs[i].res.body.details = reqs[i].err

C4_Step ==
  (\E i \in Ids : ~FetchFailed(reqs[i]) /\ FetchFailed(reqs'[i])) =>
     currentTargetOrigin' = currentTargetOrigin

\* C4: when the upstream fetch of a request fails, on either path, the client
\* gets a 502 carrying the URL that was fetched and the error's text; no
\* request ever fetches more than once; the failing step leaves the target
\* origin unchanged.
C4_FetchFailure502 == []C4_Answer /\ [][C4_Step]_vars

C4_Witness ==
  \E i \in Ids :
    /\ reqs[i].route = "catchall"
    /\ FetchFailed(reqs[i])
    /\ IsStatus(reqs[i], 502)
    /\ reqs[i].res.body.url = OriginT \o SomePath \o SomeQuery

\* C5: a /proxy request whose url parameter is missing or is no absolute URL
\* is answered with a 4xx status and fetches nothing.
C5_BadUrlIs4xx ==
  \A i \in Ids :
    (reqs[i].route = "proxy" /\ ~UrlParses(reqs[i].url.text)) =>
       /\ reqs[i].fetches = <<>>
       /\ reqs[i].res.sent => reqs[i].res.status \in 400..499

PermissiveNames ==
  {"Access-Control-Allow-Origin", "Access-Control-Allow-Methods", "Access-Control-Allow-Headers"}

BlockingNames ==
  {"X-Frame-Options", "Content-Security-Policy", "Content-Security-Policy-Report-Only",
   "X-Content-Type-Options"}

\* C6: every response the server sends carries the three permissive CORS
\* headers and none of the four headers that block framing or injection.
C6_HeadersOnEveryResponse ==
  \A i \in Ids :
    reqs[i].res.sent =>
      /\ PermissiveNames \subseteq DOMAIN reqs[i].res.headers
      /\ reqs[i].res.headers["Access-Control-Allow-Origin"] = "*"
      /\ reqs[i].res.headers["Access-Control-Allow-Methods"] = "GET, POST, PUT, DELETE, OPTIONS"
      /\ reqs[i].res.headers["Access-Control-Allow-Headers"] = "*"
      /\ BlockingNames \cap DOMAIN reqs[i].res.headers = {}

----------------------------------------------------------------------------
(* Claims about rewriteHtml *)

ElementsOf(d) == { d.head[k] : k \in 1..Len(d.head) } \cup { d.body[k] : k \in 1..Len(d.body) }

RewrittenAttrs == {"src", "href", "action", "data", "poster", "srcset", "style"}

OriginFree(el, o) ==
  /\ \A n \in DOMAIN el.attrs \cap RewrittenAttrs : ~Includes(el.attrs[n], o)
  /\ el.tag = "style" => ~Includes(el.text, o)
  /\ (el.tag = "script" /\ ~HasAttr(el, "src") /\ ~IsInjected(el)) => ~Includes(el.text, o)

\* C7: in the output of the rewriter the origin occurs in no src, href,
\* action, data or poster value, no srcset, no inline style, no style body
\* and no inline script that is not marked as injected.
C7_NoOriginLeft ==
  passes >= 1 => \A el \in ElementsOf(out) : OriginFree(el, UrlOrigin(doc.base))

\* C8: rewriting the rewriter's own output, with the same base URL, changes
\* nothing.
C8_Idempotent == [][passes >= 1 => out' = out]_vars

CountIn(els, P(_)) == Cardinality({ k \in 1..Len(els) : P(els[k]) })

IsRuntimePatch(el) ==
  el.tag = "script" /\ IsInjected(el) /\ el.text = PatchText(UrlOrigin(doc.base))

IsBundle(el) == el.tag = "script" /\ IsInjected(el) /\ el.text = InjectJs

\* C9: after any number n >= 1 of applications of the rewriter the document
\* holds exactly one runtime patch script and exactly one highlight bundle.
C9_InjectedOnce ==
  passes >= 1 =>
    /\ CountIn(out.head, IsRuntimePatch) + CountIn(out.body, IsRuntimePatch) = 1
    /\ CountIn(out.head, IsBundle) + CountIn(out.body, IsBundle) = 1

----------------------------------------------------------------------------
(* Claims about the runtime patch's functions *)

\* an absolute http(s) URL of an origin that is neither the target's nor the
\* page's own
ThirdParty(u, ORIGIN) ==
  /\ UrlParses(u)
  /\ UrlOrigin(u) \notin {ORIGIN, LocationOrigin}

SameOrigin(u, ORIGIN) == UrlParses(u) /\ UrlOrigin(u) = ORIGIN

Untouchable(u) ==
  \/ StartsWith(u, DataScheme)
  \/ StartsWith(u, BlobScheme)
  \/ StartsWith(u, JavascriptScheme)
  \/ StartsWith(u, Hash)

\* C10: proxyOrStrip turns every third-party absolute http(s) URL into
\* "/proxy?url=" followed by the percent-encoded URL, gives the result of
\* strip for a URL of the target origin, and returns data:, blob:,
\* javascript: and fragment-only references unchanged.
C10_Resolve ==
  pres.fn = "proxyOrStrip" =>
    /\ ThirdParty(purl.u, purl.origin) => pres.val = ProxyPrefix \o encodeURIComponent(purl.u)
    /\ SameOrigin(purl.u, purl.origin) => pres.val = strip(purl.u, purl.origin)
    /\ Untouchable(purl.u) => pres.val = purl.u

\* C11: strip removes the origin prefix only: strip(O + p) = p for every
\* non-empty path p beginning with "/", strip(O) = "/", and strip(u) = u for
\* every input u that is not an absolute URL of origin O.
C11_StripPrefixOnly ==
  pres.fn = "strip" =>
    /\ \A p \in PatchPaths :
         (p # Empty /\ Head(p) = "/" /\ purl.u = purl.origin \o p) => pres.val = p
    /\ purl.u = purl.origin => pres.val = <<"/">>
    /\ ~SameOrigin(purl.u, purl.origin) => pres.val = purl.u

----------------------------------------------------------------------------
(* Claims about the injected script *)

\* the step is the handling of a message / of an event by the page
Handled(handler) == page'.loaded /\ page'.handler = handler

\* the message is a command of the host
FromHost(msg, type) == msg.present /\ msg.source = HostSource /\ msg.type = type

\* a highlight command whose lookup matches no element
LookupMiss(msg) ==
  \/ FromHost(msg, "highlight-selector") /\ querySelector(msg.query) = Null
  \/ FromHost(msg, "highlight-xpath") /\ evaluate(msg.query) = Null
  \/ FromHost(msg, "highlight-text") /\ FirstWithText(msg.text) = Null

\* the tracking loop: the handle kept and the callbacks scheduled
Tracking(s) == <<s.animationFrameId, s.frames>>

C12_Step ==
  (Handled("message") /\ LookupMiss(page'.input.msg)) =>
    /\ Len(page'.posted) = 1
    /\ page'.posted[1].source = PageSource
    /\ page'.posted[1].type = "error"
    /\ page'.currentTarget = page.currentTarget
    /\ page'.overlay = page.overlay
    /\ Tracking(page') = Tracking(page)
    /\ page'.config = page.config

\* C12: a highlight command (by selector, by XPath, by text) whose lookup
\* matches no element posts exactly one error message to the parent and
\* leaves the highlighted target, the overlay, the tracking loop and the
\* config as they were.
C12_MissPostsError == [][C12_Step]_vars

\* a miss while an element is highlighted and its loop is scheduled
C12_Witness ==
  /\ page.handler = "message"
  /\ LookupMiss(page.input.msg)
  /\ page.currentTarget # Null
  /\ page.overlay.display = "block"
  /\ page.frames # {}

\* C13: in every reachable state of the page at most one animation-frame
\* tracking loop is scheduled, one is scheduled if and only if a target is
\* highlighted, and the handle kept is the handle of that loop.
C13_OneLoopIffTarget ==
  page.loaded =>
    /\ Cardinality(page.frames) <= 1
    /\ page.frames # {} <=> page.currentTarget # Null
    /\ page.frames = IF page.animationFrameId = NoFrame THEN {} ELSE {page.animationFrameId}

\* a replacement: the timer of an earlier target is still pending while
\* another element is the target, by hover
C13_Witness ==
  /\ page.handler = "mousemove"
  /\ page.timers # <<>>
  /\ page.currentTarget \notin {Null, Head(page.timers)}
  /\ Cardinality(page.frames) = 1

\* an absolute URL of another origin than the page's
OtherOrigin(href) == UrlParses(href) /\ UrlOrigin(href) # LocationOrigin

\* the step is a click on an anchor (or inside one) while the inspector is off
AnchorClick ==
  /\ Handled("click")
  /\ ~page.inspectorMode
  /\ ClosestAnchor(page'.input.node) # Null

C14_Step ==
  (AnchorClick /\ OtherOrigin(page'.input.href)) =>
    /\ page'.defaultPrevented
    /\ Len(page'.posted) = 1
    /\ page'.posted[1].type = "link-navigation"
    /\ page'.posted[1].data.url = page'.input.href

\* C14: with the inspector off, a click on an anchor whose href is an
\* absolute URL of another origin has its default navigation prevented and
\* posts exactly one link-navigation message whose url is that href,
\* unmodified, whatever the target origin recorded in the page is.
C14_ForeignLinkUnmodified == [][C14_Step]_vars

\* the handler posted an inspector-mode message with this value of enabled
PostedInspectorMode(s, enabled) ==
  \E k \in 1..Len(s.posted) :
    /\ s.posted[k].type = "inspector-mode"
    /\ s.posted[k].data = [enabled |-> enabled]

C15_Step ==
  (Handled("click") /\ page.inspectorMode) =>
    /\ page'.currentTarget = page'.input.node
    /\ page'.overlay.display = "block"
    /\ ~page'.inspectorMode
    /\ page'.listeners \cap InspectorListeners = {}
    /\ PostedInspectorMode(page', FALSE)
    /\ page'.defaultPrevented
    /\ page'.propagationStopped

\* C15: while inspecting, a click on a page element commits it: afterwards
\* that element is the highlighted target, inspector mode is off with both
\* its listeners removed and inspector-mode enabled=false posted, and the
\* click's default action and propagation were prevented.
C15_ClickCommits == [][C15_Step]_vars

\* a click inside the anchor while inspecting, after another element was
\* previewed
C15_Witness ==
  /\ page.handler = "click"
  /\ page.input.node = "em"
  /\ page.currentTarget = "em"
  /\ PostedInspectorMode(page, FALSE)
  /\ ~page.inspectorMode
  /\ page.defaultPrevented

\* the step handles clear-highlight, or the Escape key
Clearing ==
  \/ Handled("message") /\ FromHost(page'.input.msg, "clear-highlight")
  \/ Handled("keydown") /\ page'.input.key = "Escape"

\* idle: no target, the overlay hidden, no loop, the inspector off and its
\* listeners removed
Idle(s) ==
  /\ s.currentTarget = Null
  /\ s.overlay.display = "none"
  /\ s.animationFrameId = NoFrame
  /\ s.frames = {}
  /\ ~s.inspectorMode
  /\ s.listeners = {}

\* C16: from every reachable state a clear-highlight command, and likewise
\* the Escape key, leads to the idle state: no highlighted target, the
\* overlay hidden, the tracking loop cancelled, inspector mode off with its
\* listeners removed.
C16_ClearLeadsToIdle == [][Clearing => Idle(page')]_vars

\* a clear-highlight that ended the inspector and hid an overlay that had
\* framed an element
C16_Witness ==
  /\ page.handler = "message"
  /\ FromHost(page.input.msg, "clear-highlight")
  /\ PostedInspectorMode(page, FALSE)
  /\ page.overlay.rect # NoRect
  /\ Idle(page)

\* a message without data, or whose source is not the host's identifier
Foreign(msg) == ~msg.present \/ msg.source # HostSource

C17_Ignored ==
  (Handled("message") /\ Foreign(page'.input.msg)) =>
    /\ page'.currentTarget = page.currentTarget
    /\ page'.inspectorMode = page.inspectorMode
    /\ page'.listeners = page.listeners
    /\ page'.config = page.config
    /\ page'.overlay = page.overlay
    /\ Tracking(page') = Tracking(page)
    /\ page'.timers = page.timers
    /\ page'.posted = <<>>

C17_Tagged ==
  page.loaded => \A k \in 1..Len(page.posted) : page.posted[k].source = PageSource

\* C17: a received message whose source is not the host's identifier, or
\* whose data is empty, changes none of the highlighted target, inspector
\* mode, config, overlay and tracking loop and causes no outbound message;
\* every outbound message carries the page's source identifier.
C17_ForeignIgnored == [][C17_Ignored]_vars /\ []C17_Tagged

\* a highlight command without the host's source, received while another
\* element than the one it names is highlighted
C17_Witness ==
  /\ page.handler = "message"
  /\ page.input.msg.type = "highlight-selector"
  /\ Foreign(page.input.msg)
  /\ page.currentTarget \notin {Null, querySelector(page.input.msg.query)}
  /\ page.posted = <<>>

\* the overlay shows the values of the config
OverlayShows(o, cfg) ==
  /\ o.borderWidth = cfg.borderWidth
  /\ o.borderColor = cfg.borderColor
  /\ o.overlayColor = cfg.overlayColor
  /\ o.labelBackground = cfg.labelBackground
  /\ o.labelColor = cfg.labelColor

C18_Step ==
  (Handled("message") /\ FromHost(page'.input.msg, "update-config")) =>
    /\ page'.config = Merge(page.config, page'.input.msg.config)
    /\ page.currentTarget # Null =>
         /\ OverlayShows(page'.overlay, page'.config)
         /\ page'.currentTarget = page.currentTarget
         /\ page'.scrolled = Null

\* C18: after an update-config message the config is the previous config
\* overridden by the supplied fields and, if a target is highlighted, the
\* live overlay's border width and border, dimming and label colours are
\* those of the new config, with the target unchanged and no scrolling.
C18_ConfigReapplied == [][C18_Step]_vars

\* the number of levels of the tree below its root
RECURSIVE Height(_)
RECURSIVE MaxHeight(_, _)
MaxHeight(nodes, k) ==
  IF k > Len(nodes) THEN 0
  ELSE LET h == 1 + Height(nodes[k])
           r == MaxHeight(nodes, k + 1)
       IN IF h > r THEN h ELSE r
Height(node) == MaxHeight(node.children, 1)

\* the selectors of the nodes of the tree
RECURSIVE SelectorsIn(_)
RECURSIVE SelectorsAmong(_, _)
SelectorsAmong(nodes, k) ==
  IF k > Len(nodes) THEN {}
  ELSE SelectorsIn(nodes[k]) \cup SelectorsAmong(nodes, k + 1)
SelectorsIn(node) == {node.selector} \cup SelectorsAmong(node.children, 1)

\* the elements that carry a marker, and their descendants
Marked(n) == hasAttribute(n, OverlayMarker) \/ hasAttribute(n, Marker)
Excluded == { n \in Elements : Marked(n) \/ \E m \in Elements : Marked(m) /\ IsUnder(n, m) }

\* the maximum depth the query asks for: 4 when it gives none
AskedDepth(msg) == IF msg.maxDepth.given THEN msg.maxDepth.v ELSE DefaultDepth

\* C19: for every get-dom-tree query with maximum depth d >= 0 (4 when
\* omitted) one dom-tree message is posted whose tree has no node deeper
\* than d levels below the body and holds neither a node that carries the
\* overlay marker or the injected-script marker nor a descendant of one.
C19_DepthBounded ==
  (page.loaded /\ page.handler = "message" /\ FromHost(page.input.msg, "get-dom-tree")) =>
    /\ Len(page.posted) = 1
    /\ page.posted[1].type = "dom-tree"
    /\ Height(page.posted[1].data.tree) <= AskedDepth(page.input.msg)
    /\ \A n \in Excluded : getUniqueSelector(n) \notin SelectorsIn(page.posted[1].data.tree)

----------------------------------------------------------------------------
(* Claims about the content dispatch *)

\* CSS, JS, JSON or another text type
TextType(ct) == isCss(ct) \/ isJs(ct) \/ ct \in JsonTypes \/ ct \in PlainTypes

\* C20: for every proxied response whose content type is CSS, JS, JSON or
\* any other text type, the body sent to the client is the upstream body
\* with every occurrence of the resolved origin removed, and no occurrence
\* of the resolved origin remains in it.
C20_TextBodiesStripped ==
  \A i \in Ids :
    (reqs[i].up # <<>> /\ reqs[i].res.sent /\ TextType(reqs[i].up[1].ct)) =>
       /\ reqs[i].res.body.text = RemoveAllFrom(reqs[i].up[1].body.text,
                                                UrlOrigin(reqs[i].up[1].url), 1)
       /\ ~Includes(reqs[i].res.body.text, UrlOrigin(reqs[i].up[1].url))

----------------------------------------------------------------------------
(* Claims about the target origin and the documents served *)

\* the step in which request i receives the upstream's HTML document
HtmlProxied(i) ==
  /\ reqs[i].pc = "fetching"
  /\ reqs'[i].pc = "reading"
  /\ isHtml(reqs'[i].up[1].ct)

\* the step in which request i sends a rewritten HTML document
HtmlServed(i) ==
  /\ reqs[i].pc = "reading"
  /\ reqs'[i].pc = "done"
  /\ reqs'[i].res.body.kind = "html"

C21_Step ==
  \A i \in Ids :
    /\ HtmlProxied(i) => currentTargetOrigin' = UrlOrigin(reqs'[i].up[1].url)
    /\ HtmlServed(i) =>
         Head(reqs'[i].res.body.doc.head).text = PatchText(UrlOrigin(reqs[i].up[1].url))

\* C21: the target origin is the origin of the last HTML document proxied:
\* the step in which a request of either entry path (/proxy or the catch-all)
\* receives an HTML document leaves the target origin equal to the origin of
\* the document's final URL, and the document is served with a runtime patch
\* generated for that same origin.
C21_LastHtmlOrigin == [][C21_Step]_vars

----------------------------------------------------------------------------
(* Claims about the inspector's listeners, the history and the hover *)

\* C23: in every reachable state of the page the inspector's two listeners
\* (mousemove and click) are on the document if and only if the inspector
\* flag is true: both are installed while it is true, none while it is false.
C23_ListenersIffFlag ==
  page.loaded =>
    page.listeners = (IF page.inspectorMode THEN InspectorListeners ELSE {})

\* an enable-inspector command arrived while the inspector was already on
\* (nothing is posted then), and both listeners are installed
C23_Witness ==
  /\ page.loaded
  /\ page.handler = "message"
  /\ FromHost(page.input.msg, "enable-inspector")
  /\ page.posted = <<>>
  /\ page.inspectorMode
  /\ page.listeners = InspectorListeners

\* the session history after the primitive a history override replaced
OriginalHistory(fn, history, url) ==
  IF fn = "pushState" THEN Append(history, HrefOf(ResolveUrl(url)))
  ELSE [history EXCEPT ![Len(history)] = HrefOf(ResolveUrl(url))]

C29_Step ==
  \A fn \in {"pushState", "replaceState"} :
    (Handled(fn) /\ page'.input.href # Empty) =>
       /\ Len(page'.posted) = 1
       /\ page'.posted[1].type = "link-navigation"
       /\ page'.history = OriginalHistory(fn, page.history, page'.input.href)

\* C29: a call of history.pushState or history.replaceState with a URL posts
\* one link-navigation message to the parent and changes the page's session
\* history as the original primitive does: pushState adds an entry of the
\* resolved URL, replaceState replaces the current entry by it.
C29_HistoryReported == [][C29_Step]_vars

\* the step is a hover of the inspector, or an enable-inspector or
\* disable-inspector command of the host
Hovering ==
  \/ Handled("mousemove")
  \/ /\ Handled("message")
     /\ \/ FromHost(page'.input.msg, "enable-inspector")
        \/ FromHost(page'.input.msg, "disable-inspector")

\* C30: entering inspector mode, hovering over page elements and leaving
\* inspector mode by disable-inspector never change the highlight target:
\* each of these steps leaves currentTarget as it was.
C30_HoverPreviewsOnly == [][Hovering => page'.currentTarget = page.currentTarget]_vars

----------------------------------------------------------------------------
(* Claims about the runtime patch *)

\* what the message of a navigation to url carries: the target origin
\* followed by the URL when it is root-relative, the URL otherwise
Carried(url) ==
  IF url.kind = "string" /\ StartsWith(url.text, <<"/">>)
  THEN Value("string", win.ORIGIN \o url.text)
  ELSE url

C22_Step ==
  \A p \in {"location.assign", "location.replace"} :
    (win'.call = p /\ win.layers[p] > 0) =>
       /\ ~win'.navigated
       /\ ~win'.threw
       /\ Len(win'.posted) = 1
       /\ win'.posted[1].type = "link-navigation"
       /\ win'.posted[1].data.url = Carried(win'.arg.url)

\* C22: every call of location.assign(url) or location.replace(url) in a
\* page whose bootstrap installed the override navigates nowhere, raises no
\* exception into the page, whatever the argument is, and posts exactly one
\* link-navigation message carrying the URL, prefixed by the target origin
\* when it is root-relative.
C22_NavigationReported == [][C22_Step]_vars

\* C24: however many times the bootstrap runs in a page, no primitive has
\* more than one override stacked on it.
C24_WrappedOnce ==
  win.open => \A p \in DOMAIN win.layers : win.layers[p] <= 1

\* the attribute the patch watches on an element of the tag
Watched(tag) ==
  IF tag \in {"script", "img", "video", "audio", "source", "embed"} THEN "src"
  ELSE IF tag = "link" THEN "href"
  ELSE ""

C25_Step ==
  (/\ win'.call \in {"setAttribute", "setProperty"}
   /\ win.el.own # ""
   /\ Watched(win.el.tag) # "") =>
     /\ ~HasAttr(win'.el, "integrity")
     /\ (/\ win'.arg.name = Watched(win.el.tag)
         /\ StartsWith(win'.arg.value, win.ORIGIN)) =>
           /\ Attr(win'.el, win'.arg.name) = Slice(win'.arg.value, Len(win.ORIGIN))
           /\ StartsWith(Attr(win'.el, win'.arg.name), <<"/">>)

\* C25: on an element created through the patched createElement with a tag
\* the patch watches, every assignment of a src (href for link) that starts
\* with the target origin, by setAttribute or by the property, leaves the
\* attribute holding the rest of the value, which starts with a slash, and
\* no assignment leaves an integrity attribute on the element.
C25_CreatedElementsStripped == [][C25_Step]_vars

\* the elements of a node's subtree, the node included
RECURSIVE Subtree(_)
Subtree(node) ==
  IF node.tag = "" THEN {}
  ELSE {node} \cup UNION { Subtree(node.children[k]) : k \in 1..Len(node.children) }

\* C26: after a call of appendChild or insertBefore through the override, no
\* element of the inserted node's subtree carries a src or href that starts
\* with the target origin, nor an integrity or crossorigin attribute.
C26_InsertedStripped ==
  (/\ win.open
   /\ win.call \in {"appendChild", "insertBefore"}
   /\ win.layers[win.call] > 0) =>
     \A e \in Subtree(win.inserted) :
       /\ ~StartsWith(Attr(e, "src"), win.ORIGIN)
       /\ ~StartsWith(Attr(e, "href"), win.ORIGIN)
       /\ ~HasAttr(e, "integrity")
       /\ ~HasAttr(e, "crossorigin")

C27_Step ==
  win'.call = "bootstrap" =>
    /\ ~win'.threw
    /\ \A p \in DOMAIN win.layers :
         win'.layers[p] =
           IF p \in Optional /\ p \notin win.present /\ win.layers[p] = 0
           THEN win.layers[p]
           ELSE win.layers[p] + 1

\* C27: an execution of the bootstrap raises no exception, leaves alone each
\* primitive the environment lacks, and installs the override of every
\* primitive that is there.
C27_AbsentSkipped == [][C27_Step]_vars

\* the port a parsed URL connects to
RealPort(u) == IF u.port # Empty THEN u.port ELSE DefaultPort(u.protocol)

C28_Step ==
  (win'.call = "WebSocket" /\ win.layers["WebSocket"] > 0) =>
     LET p == NewUrl(win'.arg.value)
         location == NewUrl(HrefOf(Location))
         t == NewUrl(win.ORIGIN)
         opened == NewUrl(win'.socket)
     IN IF p.ok /\ p.hostname = location.hostname /\ RealPort(p) = RealPort(location)
        THEN /\ opened.hostname = t.hostname
             /\ RealPort(opened) = RealPort(t)
             /\ opened.rest = p.rest
        ELSE win'.socket = win'.arg.value

\* C28: a socket requested for the page's own hostname and port is opened to
\* the target origin's hostname and to the port the target origin is served
\* on (the default port of the target's scheme when the origin names none),
\* with path and query as requested; a socket URL of another host or port
\* reaches the original constructor unchanged.
C28_SocketRedirected == [][C28_Step]_vars

----------------------------------------------------------------------------
(* Claims about the deferred re-positioning and the clicks while inspecting *)

C33_Step ==
  Handled("timeout") =>
    /\ page'.currentTarget = page.currentTarget
    /\ page'.overlay.display = page.overlay.display
    /\ IF page.currentTarget = page'.input.node
       THEN page'.overlay.rect = getBoundingClientRect(page'.input.node)
       ELSE page'.overlay = page.overlay

\* C33: the callback scheduled 500 ms after a scrolling highlight of the
\* element E re-positions the overlay only if E is the highlight target when
\* it fires; when the target was cleared or replaced in the meantime it
\* leaves the overlay as it is, and in no case does it show the overlay or
\* change the highlight target.
C33_StaleCallbackInert == [][C33_Step]_vars

\* the callback of a highlight of one element fired while another element
\* was the target, framed by the overlay
C33_Witness ==
  /\ page.loaded
  /\ page.handler = "timeout"
  /\ page.currentTarget \notin {Null, page.input.node}
  /\ page.overlay.rect = getBoundingClientRect(page.currentTarget)

C34_Step ==
  (Handled("click") /\ page.inspectorMode) =>
     /\ \A k \in 1..Len(page'.posted) : page'.posted[k].type # "link-navigation"
     /\ page'.currentTarget = page'.input.node
     /\ ~page'.inspectorMode

\* C34: a click delivered while inspector mode is on posts no link-navigation
\* message, also when the element clicked is inside an anchor with a href:
\* the link listener sees the inspector flag set and returns, and the
\* inspector's listener then commits the element and turns the flag off.
C34_InspectorClickNoNavigation == [][C34_Step]_vars

\* an inspector click on an element inside an anchor that leads to another
\* page: the element is the target and the inspector is off
C34_Witness ==
  /\ page.loaded
  /\ page.handler = "click"
  /\ page.input.node = "em"
  /\ page.input.href = OriginO \o <<"/", "y">>
  /\ PostedInspectorMode(page, FALSE)
  /\ page.currentTarget = "em"

-----------------------------------------------------------------------------
(* Claims about the answer every request gets and the origin one request   *)
(* uses.                                                                   *)

Answered(i) == Len(reqs) >= i /\ reqs[i].res.sent

\* C31: every inbound request is eventually answered, also when the upstream
\* fetch succeeded and a later step (reading the upstream body, rewriting
\* the HTML, reading the bundle file) fails.
C31_EventuallyAnswered ==
  \A i \in 1..MaxReqs : (Len(reqs) >= i) ~> Answered(i)

\* the Referer and Origin headers name the origin o
HeadersOf(q, o) ==
  /\ Len(q.opts) = 1
  /\ q.opts[1].Referer = o \o <<"/">>
  /\ q.opts[1].Origin = o

C32_Arrival ==
  (Arrived /\ Newest.route = "catchall" /\ currentTargetOrigin # Empty) =>
     /\ Newest.targetUrl = currentTargetOrigin \o Newest.originalUrl
     /\ HeadersOf(Newest, currentTargetOrigin)

C32_Later ==
  \A i \in Ids :
    reqs[i].route = "catchall" =>
      /\ reqs'[i].targetUrl = reqs[i].targetUrl
      /\ reqs'[i].opts = reqs[i].opts
      /\ \A k \in 1..Len(reqs'[i].fetches) : reqs'[i].fetches[k] = reqs[i].targetUrl

\* C32: a catch-all request builds its upstream URL and its Referer and
\* Origin headers from the one value the target origin holds when the request
\* arrives (never empty), and neither changes afterwards, whatever /proxy
\* requests write to the target origin while the body is collected or the
\* fetch is pending; fetch is called with that URL.
C32_OneOriginPerRequest == [][C32_Arrival /\ C32_Later]_vars

\* a POST through the catch-all was forwarded to http://t with the headers
\* of http://t while the target origin has become http://o
C32_Witness ==
  \E i \in Ids :
    /\ reqs[i].route = "catchall"
    /\ reqs[i].method = "POST"
    /\ reqs[i].fetches = <<OriginT \o reqs[i].originalUrl>>
    /\ HeadersOf(reqs[i], OriginT)
    /\ currentTargetOrigin = OriginO

=============================================================================
